---- MODULE Spec2Model ----
(***************************************************************************)
(* Model of app/services/system_info_service.py: the SystemInfoService     *)
(* singleton, its two collection threads, the lock that guards the four    *)
(* stored reports, and the S.M.A.R.T. analysis.                            *)
(***************************************************************************)
EXTENDS Integers, Sequences, FiniteSets, TLC

\* ------------------------------------------------------------------ bounds
\* The number of start() calls that create threads.
MaxStarts == 2
\* The number of datetime.now() readings (every stored report and every
\* sample takes one).
MaxClock == 5
\* The rows of a payload's ATA attribute table.
MaxRows == 2
\* The nested objects a caller writes to.
MaxMutations == 1
\* The entries of a DISK_USAGE_PATHS list given to one disk-usage scan.
MaxPaths == 2
\* The devices one smartctl --scan-open lists.
MaxDevices == 2

\* ------------------------------------------------------------- python data
\* A thread attribute holding None.
None == 0
\* deque() without maxlen.
NoMaxlen == -1
\* The Python dict {}.
EmptyDict == [k \in {} |-> 0]

\* The configurations app.config can hand to start(): interval seconds and
\* retention minutes, chosen so the capacity (R * 60) // I is 2, 1 or 0.
Configs ==
    { [REALTIME_COLLECTION_INTERVAL |-> i, REALTIME_RETENTION_MINUTES |-> 1,
       DISK_USAGE_PATHS |-> <<"/home">>] : i \in {30, 45, 120} }

Generations == 1..MaxStarts

VARIABLES
    hardware_info,      \* self._hardware_info
    realtime_history,   \* self._realtime_history: [items, maxlen]
    disk_usage,         \* self._disk_usage
    smart_info,         \* self._smart_info
    config,             \* self._config
    lock,               \* self._lock: "free" or its holder
    shutdown_event,     \* self._shutdown_event
    realtime_thread,    \* self._realtime_thread: None or a thread
    daily_thread,       \* self._daily_thread: None or a thread
    rt,                 \* the threads running _realtime_collection_loop
    daily,              \* the threads running _daily_collection_loop
    main,               \* the caller of start() and stop()
    stdout,             \* the last line printed by start() or stop()
    reader,             \* a caller of the read accessors
    now,                \* the last reading of datetime.now()
    mutated,            \* the stored objects a caller has written to
    analysis,           \* the locals of one call of _analyze_smart_data
    usage,              \* the locals of one call of _collect_daily_data
    smart,              \* the locals of one call of _collect_all_smart_info
    command,            \* the locals of one call of _run_command
    sample,             \* the locals of one turn of the realtime loop
    probe               \* the locals of one call of _collect_hardware_info

vars == <<hardware_info, realtime_history, disk_usage, smart_info, config,
          lock, shutdown_event, realtime_thread, daily_thread, rt, daily,
          main, stdout, reader, now, mutated, analysis, usage, smart,
          command, sample, probe>>

\* What the service and its threads never write.
aside == <<mutated, analysis, usage, smart, command, sample, probe>>

store == <<hardware_info, realtime_history, disk_usage, smart_info>>

\* -------------------------------------------------------------------- deque
\* collections.deque.appendleft in place of append.
DequeAppendLeft(d, x) ==
    LET a == <<x>> \o d.items
    IN  [d EXCEPT !.items = IF d.maxlen # NoMaxlen /\ Len(a) > d.maxlen
                            THEN SubSeq(a, 1, Len(a) - 1) ELSE a]

\* collections.deque.append: the item goes in at the right, and a deque
\* longer than its maxlen drops its leftmost item.
DequeAppend(d, x) ==
    LET a == Append(d.items, x)
    IN  [d EXCEPT !.items = IF d.maxlen # NoMaxlen /\ Len(a) > d.maxlen
                            THEN Tail(a) ELSE a]

\* max_len rounded up instead of down.
MaxLenOfRoundedUp(c) ==
    (c.REALTIME_RETENTION_MINUTES * 60 + c.REALTIME_COLLECTION_INTERVAL - 1)
        \div c.REALTIME_COLLECTION_INTERVAL

\* max_len of start().
MaxLenOf(c) ==
    (c.REALTIME_RETENTION_MINUTES * 60) \div c.REALTIME_COLLECTION_INTERVAL

\* threading.Lock, not held.
Free == <<"free", 0>>

\* threading.Thread.is_alive.
IsAlive(th) == th.pc \notin {"none", "dead", "raised"}

\* ------------------------------------------------------ _analyze_smart_data
\* CRITICAL_ATA_ATTRIBUTES: the attribute ids, each with check_raw = True.
CRITICAL_ATA_ATTRIBUTES == {5, 187, 188, 197, 198}

\* The analysis of an absent payload.
UnknownAnalysis ==
    [health_status |-> "UNKNOWN",
     summary |-> <<"no S.M.A.R.T. data">>,
     critical_attributes |-> <<>>,
     recommendations |-> <<"check connection and permissions">>]

\* summary, recommendations, critical_attributes = [], status = HEALTHY.
AnalysisStart ==
    [health_status |-> "HEALTHY", summary |-> <<>>,
     critical_attributes |-> <<>>, recommendations |-> <<>>]

\* status = HealthStatus.WARNING without the test for HEALTHY.
RaiseToWarningAlways(status) == "WARNING"

\* if status == HealthStatus.HEALTHY: status = HealthStatus.WARNING
RaiseToWarning(status) == IF status = "HEALTHY" THEN "WARNING" ELSE status

\* The self-test rule taking a missing indicator for a passed one.
RuleSelfTestDefaultPassed(a, raw) ==
    IF raw.smart_status = "failed"
    THEN [a EXCEPT !.health_status = "FAILED",
                   !.summary = Append(@, "self-test failed"),
                   !.recommendations = Append(@, "back up and replace")]
    ELSE [a EXCEPT !.summary = Append(@, "self-test passed")]

\* The overall self-test: raw_data.get("smart_status", {}).get("passed", False).
RuleSelfTest(a, raw) ==
    IF raw.smart_status # "passed"
    THEN [a EXCEPT !.health_status = "FAILED",
                   !.summary = Append(@, "self-test failed"),
                   !.recommendations = Append(@, "back up and replace")]
    ELSE [a EXCEPT !.summary = Append(@, "self-test passed")]

\* nvme_log.get("critical_warning", 0) > 0.
RuleNvmeCritical(a, raw) ==
    IF raw.nvme # <<>> /\ raw.nvme[1].critical_warning > 0
    THEN [a EXCEPT !.health_status = "FAILED",
                   !.summary = Append(@, "NVMe critical warning"),
                   !.recommendations = Append(@, "check the SSD")]
    ELSE a

\* percentage_used > 90.
RuleNvmeLifeAbove90(a, raw) ==
    IF raw.nvme # <<>> /\ raw.nvme[1].percentage_used > 90
    THEN [a EXCEPT !.health_status = IF @ = "HEALTHY" THEN "WARNING" ELSE @,
                   !.summary = Append(@, "SSD life used"),
                   !.recommendations = Append(@, "replace the SSD soon")]
    ELSE a

\* percentage_used > 85.
RuleNvmeLife(a, raw) ==
    IF raw.nvme # <<>> /\ raw.nvme[1].percentage_used > 85
    THEN [a EXCEPT !.health_status = RaiseToWarning(@),
                   !.summary = Append(@, "SSD life used"),
                   !.recommendations = Append(@, "replace the SSD soon")]
    ELSE a

\* The row rule without the test raw_value > 0.
RuleAtaAnyRaw(a, attr) ==
    IF attr.id \in CRITICAL_ATA_ATTRIBUTES
    THEN [a EXCEPT !.health_status = IF @ = "HEALTHY" THEN "WARNING" ELSE @,
                   !.summary = Append(@, "critical attribute"),
                   !.recommendations = Append(@, "monitor the attribute"),
                   !.critical_attributes =
                       Append(@, [id |-> attr.id, raw_value |-> attr.raw])]
    ELSE a

\* The row rule reporting a finding only while the status is HEALTHY.
RuleAtaGated(a, attr) ==
    IF attr.id \in CRITICAL_ATA_ATTRIBUTES /\ attr.raw > 0
          /\ a.health_status = "HEALTHY"
    THEN [a EXCEPT !.health_status = "WARNING",
                   !.summary = Append(@, "critical attribute"),
                   !.recommendations = Append(@, "monitor the attribute"),
                   !.critical_attributes =
                       Append(@, [id |-> attr.id, raw_value |-> attr.raw])]
    ELSE a

\* One row of raw_data["ata_smart_attributes"]["table"].
RuleAta(a, attr) ==
    IF attr.id \in CRITICAL_ATA_ATTRIBUTES /\ attr.raw > 0
    THEN [a EXCEPT !.health_status = RaiseToWarning(@),
                   !.summary = Append(@, "critical attribute"),
                   !.recommendations = Append(@, "monitor the attribute"),
                   !.critical_attributes =
                       Append(@, [id |-> attr.id, raw_value |-> attr.raw])]
    ELSE a

\* The rows of the table, in order.
RECURSIVE RuleAtaTable(_, _)
RuleAtaTable(a, table) ==
    IF table = <<>> THEN a
    ELSE RuleAtaTable(RuleAta(a, Head(table)), Tail(table))

\* The temperature rule skipped once a S.M.A.R.T. report is in the store.
RuleTemperatureOnce(a, raw) ==
    IF smart_info = EmptyDict /\ raw.temperature # <<>> /\ raw.temperature[1] > 55
    THEN [a EXCEPT !.health_status = IF @ = "HEALTHY" THEN "WARNING" ELSE @,
                   !.summary = Append(@, "temperature high"),
                   !.recommendations = Append(@, "check the cooling")]
    ELSE a

\* The temperature rule firing at 55 already.
RuleTemperatureFrom55(a, raw) ==
    IF raw.temperature # <<>> /\ raw.temperature[1] >= 55
    THEN [a EXCEPT !.health_status = IF @ = "HEALTHY" THEN "WARNING" ELSE @,
                   !.summary = Append(@, "temperature high"),
                   !.recommendations = Append(@, "check the cooling")]
    ELSE a

\* The closing default pair added whenever the first line is the passed one.
RuleDefaultWhenPassed(a) ==
    IF a.summary # <<>> /\ a.summary[1] = "self-test passed"
    THEN [a EXCEPT !.summary = Append(@, "no anomalies"),
                   !.recommendations = Append(@, "keep checking")]
    ELSE a

\* temp is not None and temp > 55.
RuleTemperature(a, raw) ==
    IF raw.temperature # <<>> /\ raw.temperature[1] > 55
    THEN [a EXCEPT !.health_status = RaiseToWarning(@),
                   !.summary = Append(@, "temperature high"),
                   !.recommendations = Append(@, "check the cooling")]
    ELSE a

\* The analysis without its closing default pair.
RuleDefaultNever(a) == a

\* len(summary) == 1 and the line is the passed one.
RuleDefault(a) ==
    IF Len(a.summary) = 1 /\ a.summary[1] = "self-test passed"
    THEN [a EXCEPT !.summary = Append(@, "no anomalies"),
                   !.recommendations = Append(@, "keep checking")]
    ELSE a

\* raw_data["ata_smart_attributes"]["table"] on a payload whose attribute
\* section has no table: KeyError, which nothing on the way up catches.
AnalysisRaises(raw) ==
    raw # <<>> /\ raw[1].ata.present /\ ~raw[1].ata.has_table

\* No call of _collect_daily_data under way.
NoUsage == [pc |-> "none", paths |-> <<>>, fs |-> <<>>, i |-> 0,
            usage_data |-> <<>>, log |-> <<>>]

\* No call of _collect_all_smart_info under way.
NoSmart == [pc |-> "none", scan |-> <<>>, i |-> 0, keys |-> <<>>,
            final_report |-> <<>>, log |-> <<>>]

\* No call of _run_command under way.
NoCommand == [pc |-> "none", command |-> <<>>, use_sudo |-> FALSE,
              full_command |-> <<>>, run |-> <<>>, spawned |-> 0, ret |-> <<>>]

\* No turn of the realtime loop under way.
NoSample == [pc |-> "none", nvidia |-> FALSE, device_count |-> 0, i |-> 0,
             gpus |-> <<>>, status |-> EmptyDict, failed |-> FALSE,
             log |-> <<>>, turns |-> 0]

\* No call of _collect_hardware_info under way.
NoProbe == [pc |-> "none", host |-> EmptyDict, info |-> EmptyDict, log |-> <<>>]

\* No call of _analyze_smart_data under way.
NoAnalysis == [pc |-> "none", raw |-> <<>>, rows |-> <<>>, result |-> AnalysisStart]

\* _analyze_smart_data(raw_data), raw_data None being <<>>.
AnalyzeSmartData(raw) ==
    IF raw = <<>> THEN UnknownAnalysis
    ELSE LET r == raw[1]
             a1 == RuleSelfTest(AnalysisStart, r)
             a2 == RuleNvmeCritical(a1, r)
             a3 == RuleNvmeLife(a2, r)
             a4 == IF r.ata.present THEN RuleAtaTable(a3, r.ata.table) ELSE a3
             a5 == RuleTemperature(a4, r)
         IN  RuleDefault(a5)

\* A thread of _realtime_collection_loop: where it is, and how many times
\* start() had created threads when the collection it is in began.
NoWorker == [pc |-> "none", starts |-> 0]

\* A thread of _daily_collection_loop: where it is, whether it is in the
\* cycle that runs at once, the value the routine it is in has built so
\* far, and the reports it has stored in this cycle.
NoThread == [pc |-> "none", first |-> TRUE, local |-> <<>>, replaced |-> {}]


\* ---------------------------------------------------------------- __init__
Init ==
    /\ hardware_info = EmptyDict
    /\ realtime_history = [items |-> <<>>, maxlen |-> NoMaxlen]
    /\ disk_usage = EmptyDict
    /\ smart_info = EmptyDict
    /\ config = EmptyDict
    /\ lock = Free
    /\ shutdown_event = FALSE
    /\ realtime_thread = None
    /\ daily_thread = None
    /\ rt = [g \in Generations |-> NoWorker]
    /\ daily = [g \in Generations |-> NoThread]
    /\ main = [pc |-> "idle", max_len |-> 0]
    /\ stdout = ""
    /\ reader = [pc |-> "idle", acc |-> "", ret |-> <<>>]
    /\ now = 0
    /\ mutated = {}
    /\ analysis = NoAnalysis
    /\ usage = NoUsage
    /\ smart = NoSmart
    /\ command = NoCommand
    /\ sample = NoSample
    /\ probe = NoProbe

\* ------------------------------------------------------------------- clock
\* The readings of datetime.now() a thread still takes before it is back at
\* its wait: one for each report its cycle has yet to store.
RtReadings(th) == IF th.pc \in {"sample", "append"} THEN 1 ELSE 0
DailyReadings(th) ==
    CASE th.pc \in {"hw", "hw_st"} -> 3
      [] th.pc \in {"sm", "sm_st"} -> 2
      [] th.pc \in {"du", "du_st"} -> 1
      [] OTHER -> 0

RECURSIVE Total(_, _)
Total(f, S) ==
    IF S = {} THEN 0
    ELSE LET x == CHOOSE y \in S : TRUE IN f[x] + Total(f, S \ {x})

\* The readings the cycles under way will take.
Reserved ==
    Total([g \in Generations |-> RtReadings(rt[g]) + DailyReadings(daily[g])],
          Generations)

\* A cycle that takes n readings begins only when the clock of the model
\* has n readings left, so that a cycle once begun runs to its end.
CanBegin(n) == now + Reserved + n <= MaxClock

\* ------------------------------------------------------------------- start
\* The thread objects start() is about to create.
NextGen == Cardinality({g \in Generations : rt[g].pc # "none"}) + 1

\* The guard of start() written against the daily thread.
DailyAlreadyRunning == daily_thread # None /\ IsAlive(daily[daily_thread])

\* The guard of start(): the realtime thread exists and is alive.
AlreadyRunning == realtime_thread # None /\ IsAlive(rt[realtime_thread])

\* start() while running: the notice is printed and nothing else happens.
StartAlreadyRunning ==
    /\ main.pc = "idle"
    /\ AlreadyRunning
    /\ stdout' = "SystemInfoService is already running."
    /\ UNCHANGED <<store, config, lock, shutdown_event, realtime_thread,
                   daily_thread, rt, daily, main, reader, now>>
    /\ UNCHANGED aside

\* start(), up to the lock: the configuration is read and max_len computed.
StartConfigure ==
    /\ main.pc = "idle"
    /\ ~AlreadyRunning
    /\ NextGen <= MaxStarts
    /\ \E c \in Configs :
          /\ config' = c
          /\ main' = [pc |-> "start_lock", max_len |-> MaxLenOf(c)]
    /\ UNCHANGED <<store, lock, shutdown_event, realtime_thread, daily_thread,
                   rt, daily, stdout, reader, now>>
    /\ UNCHANGED aside

\* start(), from the lock on, clearing the stored hardware snapshot too.
StartThreadsResetting ==
    /\ main.pc = "start_lock"
    /\ lock = Free
    /\ CanBegin(3)
    /\ realtime_history' = [items |-> <<>>, maxlen |-> main.max_len]
    /\ hardware_info' = EmptyDict
    /\ shutdown_event' = FALSE
    /\ rt' = [rt EXCEPT ![NextGen] = [NoWorker EXCEPT !.pc = "loop"]]
    /\ daily' = [daily EXCEPT ![NextGen] = [NoThread EXCEPT !.pc = "hw"]]
    /\ realtime_thread' = NextGen
    /\ daily_thread' = NextGen
    /\ stdout' = "SystemInfoService started."
    /\ main' = [pc |-> "idle", max_len |-> 0]
    /\ UNCHANGED <<disk_usage, smart_info, config, lock, reader, now>>
    /\ UNCHANGED aside

\* start(), from the lock on: a new deque, the event cleared, both threads
\* created and started.
StartThreads ==
    /\ main.pc = "start_lock"
    /\ lock = Free
    /\ CanBegin(3)
    /\ realtime_history' = [items |-> <<>>, maxlen |-> main.max_len]
    /\ shutdown_event' = FALSE
    /\ rt' = [rt EXCEPT ![NextGen] = [NoWorker EXCEPT !.pc = "loop"]]
    /\ daily' = [daily EXCEPT ![NextGen] = [NoThread EXCEPT !.pc = "hw"]]
    /\ realtime_thread' = NextGen
    /\ daily_thread' = NextGen
    /\ stdout' = "SystemInfoService started."
    /\ main' = [pc |-> "idle", max_len |-> 0]
    /\ UNCHANGED <<hardware_info, disk_usage, smart_info, config, lock,
                   reader, now>>
    /\ UNCHANGED aside

\* -------------------------------------------------------------------- stop
\* join(timeout=2) gives up on a thread that is inside a collection (an
\* external command, a library query, a directory walk); a thread at its
\* wait or inside a critical section is through well within the timeout.
RtBusy(th) == th.pc = "sample"
DailyBusy(th) == th.pc \in {"hw", "sm", "du"}

\* stop(): the event is set.
StopSignal ==
    /\ main.pc = "idle"
    /\ shutdown_event' = TRUE
    /\ main' = [main EXCEPT !.pc = "join_rt"]
    /\ UNCHANGED <<store, config, lock, realtime_thread, daily_thread, rt,
                   daily, stdout, reader, now>>
    /\ UNCHANGED aside

\* stop(): the realtime thread is joined, when there is one alive.
StopJoinRealtime ==
    /\ main.pc = "join_rt"
    /\ ~(/\ realtime_thread # None
          /\ IsAlive(rt[realtime_thread])
          /\ ~RtBusy(rt[realtime_thread]))
    /\ main' = [main EXCEPT !.pc = "join_daily"]
    /\ UNCHANGED <<store, config, lock, shutdown_event, realtime_thread,
                   daily_thread, rt, daily, stdout, reader, now>>
    /\ UNCHANGED aside

\* stop(): the daily thread is joined, and both attributes become None.
StopJoinDaily ==
    /\ main.pc = "join_daily"
    /\ ~(/\ daily_thread # None
          /\ IsAlive(daily[daily_thread])
          /\ ~DailyBusy(daily[daily_thread]))
    /\ realtime_thread' = None
    /\ daily_thread' = None
    /\ stdout' = "SystemInfoService stopped."
    /\ main' = [main EXCEPT !.pc = "idle"]
    /\ UNCHANGED <<store, config, lock, shutdown_event, rt, daily, reader,
                   now>>
    /\ UNCHANGED aside

\* ------------------------------------------------ _realtime_collection_loop
\* while not self._shutdown_event.is_set(), and the wait that ends a cycle.
RtLoop(g) ==
    /\ rt[g].pc = "loop"
    /\ IF shutdown_event
       THEN rt' = [rt EXCEPT ![g].pc = "dead"]
       ELSE /\ CanBegin(1)
            /\ rt' = [rt EXCEPT ![g].pc = "sample", ![g].starts = NextGen - 1]
    /\ UNCHANGED <<store, config, lock, shutdown_event, realtime_thread,
                   daily_thread, daily, main, stdout, reader, now>>
    /\ UNCHANGED aside

\* The CPU, memory and GPU readings are taken, then the lock.
RtSample(g) ==
    /\ rt[g].pc = "sample"
    /\ lock = Free
    /\ lock' = <<"rt", g>>
    /\ rt' = [rt EXCEPT ![g].pc = "append"]
    /\ UNCHANGED <<store, config, shutdown_event, realtime_thread,
                   daily_thread, daily, main, stdout, reader, now>>
    /\ UNCHANGED aside

\* with self._lock: self._realtime_history.append({...}).
RtAppend(g) ==
    /\ rt[g].pc = "append"
    /\ now' = now + 1
    /\ realtime_history' =
          DequeAppend(realtime_history, [timestamp |-> now', data |-> "status"])
    /\ lock' = Free
    /\ rt' = [rt EXCEPT ![g].pc = "loop", ![g].starts = 0]
    /\ UNCHANGED <<hardware_info, disk_usage, smart_info, config,
                   shutdown_event, realtime_thread, daily_thread, daily, main,
                   stdout, reader>>
    /\ UNCHANGED aside

\* --------------------------------------------------- _collect_hardware_info
\* The sections of info.
AllSections == {"os", "cpu", "motherboard", "memory", "gpus", "disks"}

\* A thread of the daily loop ends because an exception left the loop.
Raised(th) == [th EXCEPT !.pc = "raised", !.local = <<>>]

\* The probe writing its first section into self._hardware_info, before it
\* takes the lock, in place of the local info.
CollectHardwareInfoProbePublishing(g) ==
    /\ daily[g].pc = "hw"
    /\ lock = Free
    /\ lock' = <<"daily", g>>
    /\ hardware_info' = [timestamp |-> now, data |-> {"os"}]
    /\ daily' = [daily EXCEPT ![g].pc = "hw_st", ![g].local = <<AllSections>>]
    /\ UNCHANGED <<realtime_history, disk_usage, smart_info, config,
                   shutdown_event, realtime_thread, daily_thread, rt, main,
                   stdout, reader, now>>
    /\ UNCHANGED aside

\* info = {} up to info['disks'], then the lock: the OS release, lscpu,
\* dmidecode, psutil, NVML and lsblk fill the sections of the local info.
\* platform.freedesktop_os_release() raises OSError when the host has no
\* os-release file, and nothing catches it.
CollectHardwareInfoProbe(g) ==
    /\ daily[g].pc = "hw"
    /\ \/ /\ daily' = [daily EXCEPT ![g] = Raised(@)]
          /\ UNCHANGED lock
       \/ /\ lock = Free
                /\ lock' = <<"daily", g>>
          /\ daily' = [daily EXCEPT ![g].pc = "hw_st",
                                    ![g].local = <<AllSections>>]
    /\ UNCHANGED <<store, config, shutdown_event, realtime_thread,
                   daily_thread, rt, main, stdout, reader, now>>
    /\ UNCHANGED aside

\* with self._lock: self._hardware_info = {'timestamp': ..., 'data': info}
CollectHardwareInfoStore(g) ==
    /\ daily[g].pc = "hw_st"
    /\ now' = now + 1
    /\ hardware_info' = [timestamp |-> now', data |-> daily[g].local[1]]
    /\ lock' = Free
    /\ daily' = [daily EXCEPT ![g].pc = "sm", ![g].local = <<>>,
                              ![g].replaced = @ \cup {"hardware"}]
    /\ UNCHANGED <<realtime_history, disk_usage, smart_info, config,
                   shutdown_event, realtime_thread, daily_thread, rt, main,
                   stdout, reader>>
    /\ UNCHANGED aside

\* ------------------------------------------------- _collect_smart_info_data
\* Payloads smartctl can hand back for a device.
PassedPayload ==
    [smart_status |-> "passed", nvme |-> <<>>,
     ata |-> [present |-> TRUE, has_table |-> TRUE,
              table |-> <<[id |-> 5, raw |-> 0]>>],
     temperature |-> <<40>>]
NoTablePayload ==
    [PassedPayload EXCEPT !.ata = [present |-> TRUE, has_table |-> FALSE,
                                   table |-> <<>>]]

\* What the external commands of one S.M.A.R.T. collection come back with:
\* whether the scan succeeded, and each device found with its payload
\* (<<>> when the fetch or the parse failed).
SmartScans ==
    { [ok |-> FALSE, devices |-> <<>>] } \cup
    { [ok |-> TRUE, devices |-> <<[path |-> "/dev/sda", raw |-> r]>>] :
        r \in {<<>>, <<PassedPayload>>, <<NoTablePayload>>} }

\* _collect_all_smart_info raises when the analysis of a device does.
CollectAllSmartInfoRaises(scan) ==
    scan.ok /\ \E i \in 1..Len(scan.devices) : AnalysisRaises(scan.devices[i].raw)

\* The keys of a dict in the order they were first assigned.
RECURSIVE KeysInOrder(_, _)
KeysInOrder(keys, paths) ==
    IF paths = <<>> THEN keys
    ELSE KeysInOrder(IF \E k \in 1..Len(keys) : keys[k] = Head(paths)
                     THEN keys ELSE Append(keys, Head(paths)),
                     Tail(paths))

\* _collect_all_smart_info: final_report.
CollectAllSmartInfo(scan) ==
    IF ~scan.ok THEN [device_list |-> <<>>, disk_info |-> EmptyDict]
    ELSE [device_list |->
            KeysInOrder(<<>>, [i \in 1..Len(scan.devices) |-> scan.devices[i].path]),
          disk_info |->
            [p \in {scan.devices[i].path : i \in 1..Len(scan.devices)} |->
               LET i == CHOOSE j \in 1..Len(scan.devices) :
                          /\ scan.devices[j].path = p
                          /\ \A k \in j+1..Len(scan.devices) :
                                scan.devices[k].path # p
               IN  [raw_smart_data |-> scan.devices[i].raw,
                    analysis |-> AnalyzeSmartData(scan.devices[i].raw)]]]

\* smart_data = self._collect_all_smart_info(), then the lock.
CollectSmartInfoDataRun(g) ==
    /\ daily[g].pc = "sm"
    /\ \E scan \in SmartScans :
         IF CollectAllSmartInfoRaises(scan)
         THEN /\ daily' = [daily EXCEPT ![g] = Raised(@)]
              /\ UNCHANGED lock
         ELSE /\ lock = Free
                        /\ lock' = <<"daily", g>>
              /\ daily' = [daily EXCEPT ![g].pc = "sm_st",
                              ![g].local = <<CollectAllSmartInfo(scan)>>]
    /\ UNCHANGED <<store, config, shutdown_event, realtime_thread,
                   daily_thread, rt, main, stdout, reader, now>>
    /\ UNCHANGED aside

\* The S.M.A.R.T. store with the disk scan moved inside its with block: the
\* lock is still held when the scan begins.
CollectSmartInfoDataStoreHolding(g) ==
    /\ daily[g].pc = "sm_st"
    /\ now' = now + 1
    /\ smart_info' = [timestamp |-> now', data |-> daily[g].local[1]]
    /\ daily' = [daily EXCEPT ![g].pc = "du", ![g].local = <<>>,
                              ![g].replaced = @ \cup {"smart"}]
    /\ UNCHANGED <<hardware_info, realtime_history, disk_usage, config, lock,
                   shutdown_event, realtime_thread, daily_thread, rt, main,
                   stdout, reader>>
    /\ UNCHANGED aside

\* The S.M.A.R.T. store ending the cycle when the report has no devices.
CollectSmartInfoDataStoreEnding(g) ==
    /\ daily[g].pc = "sm_st"
    /\ now' = now + 1
    /\ smart_info' = [timestamp |-> now', data |-> daily[g].local[1]]
    /\ lock' = Free
    /\ daily' = [daily EXCEPT
                   ![g].pc = IF daily[g].local[1].device_list = <<>>
                             THEN "loop" ELSE "du",
                   ![g].local = <<>>,
                   ![g].replaced = @ \cup {"smart"}]
    /\ UNCHANGED <<hardware_info, realtime_history, disk_usage, config,
                   shutdown_event, realtime_thread, daily_thread, rt, main,
                   stdout, reader>>
    /\ UNCHANGED aside

\* with self._lock: self._smart_info = {'timestamp': ..., 'data': smart_data}
CollectSmartInfoDataStore(g) ==
    /\ daily[g].pc = "sm_st"
    /\ now' = now + 1
    /\ smart_info' = [timestamp |-> now', data |-> daily[g].local[1]]
    /\ lock' = Free
    /\ daily' = [daily EXCEPT ![g].pc = "du", ![g].local = <<>>,
                              ![g].replaced = @ \cup {"smart"}]
    /\ UNCHANGED <<hardware_info, realtime_history, disk_usage, config,
                   shutdown_event, realtime_thread, daily_thread, rt, main,
                   stdout, reader>>
    /\ UNCHANGED aside

\* ------------------------------------------------------ _collect_daily_data
\* What the filesystem has at a path: not a directory (os.path.isdir is
\* false), a directory whose shutil.disk_usage raises, a directory whose
\* listing or walk raises PermissionError or another exception, or a
\* directory that is scanned to its end.
PathOutcomes == {"not_dir", "no_partition", "denied", "listing_error", "ok"}

\* The scan of a path without the os.path.isdir test.
PathEntryUnchecked(path, st) ==
    IF st = "no_partition" THEN <<>>
    ELSE <<[path |-> path,
            users |-> IF st = "ok" THEN "listed" ELSE "partly listed"]>>

\* What one turn of the loop appends to usage_data: nothing after a
\* continue, otherwise the entry of the path, its users being those listed
\* before an exception ended the listing.
PathEntry(path, st) ==
    IF st \in {"not_dir", "no_partition"} THEN <<>>
    ELSE <<[path |-> path,
            users |-> IF st = "ok" THEN "listed" ELSE "partly listed"]>>

\* What one turn of the loop hands to self._app.logger.
PathLog(path, st) ==
    CASE st = "not_dir" -> <<[level |-> "warning", path |-> path]>>
      [] st = "no_partition" -> <<[level |-> "error", path |-> path]>>
      [] st = "denied" -> <<[level |-> "warning", path |-> path]>>
      [] st = "listing_error" -> <<[level |-> "error", path |-> path]>>
      [] OTHER -> <<>>

\* usage_data: the entries of the paths, in the order of the list.
RECURSIVE UsageData(_, _)
UsageData(paths, fs) ==
    IF paths = <<>> THEN <<>>
    ELSE PathEntry(Head(paths), fs[Head(paths)]) \o UsageData(Tail(paths), fs)

\* The loop over self._config.get('DISK_USAGE_PATHS', []), then the lock.
CollectDailyDataScan(g) ==
    /\ daily[g].pc = "du"
    /\ lock = Free
    /\ LET paths == config.DISK_USAGE_PATHS
       IN  \E fs \in [{paths[i] : i \in 1..Len(paths)} -> PathOutcomes] :
             daily' = [daily EXCEPT ![g].pc = "du_st",
                          ![g].local = <<UsageData(paths, fs)>>]
    /\ lock' = <<"daily", g>>
    /\ UNCHANGED <<store, config, shutdown_event, realtime_thread,
                   daily_thread, rt, main, stdout, reader, now>>
    /\ UNCHANGED aside

\* with self._lock: self._disk_usage = {'timestamp': ..., 'data': usage_data}
CollectDailyDataStore(g) ==
    /\ daily[g].pc = "du_st"
    /\ now' = now + 1
    /\ disk_usage' = [timestamp |-> now', data |-> daily[g].local[1]]
    /\ lock' = Free
    /\ daily' = [daily EXCEPT ![g].pc = "loop", ![g].local = <<>>,
                              ![g].replaced = @ \cup {"disk"}]
    /\ UNCHANGED <<hardware_info, realtime_history, smart_info, config,
                   shutdown_event, realtime_thread, daily_thread, rt, main,
                   stdout, reader>>
    /\ UNCHANGED aside

\* --------------------------------------------------- _daily_collection_loop
\* The loop with the hardware probe inside it.
DailyLoopWithHardware(g) ==
    /\ daily[g].pc = "loop"
    /\ IF shutdown_event
       THEN daily' = [daily EXCEPT ![g].pc = "dead"]
       ELSE /\ CanBegin(2)
            /\ daily' = [daily EXCEPT ![g].pc = "hw", ![g].first = FALSE,
                                      ![g].replaced = {}]
    /\ UNCHANGED <<store, config, lock, shutdown_event, realtime_thread,
                   daily_thread, rt, main, stdout, reader, now>>
    /\ UNCHANGED aside

\* The loop without the tests of the event.
DailyLoopDeaf(g) ==
    /\ daily[g].pc = "loop"
    /\ CanBegin(2)
    /\ daily' = [daily EXCEPT ![g].pc = "sm", ![g].first = FALSE,
                              ![g].replaced = {}]
    /\ UNCHANGED <<store, config, lock, shutdown_event, realtime_thread,
                   daily_thread, rt, main, stdout, reader, now>>
    /\ UNCHANGED aside

\* while not is_set(): if wait(timeout=24 * 3600): break; otherwise the next
\* cycle, which starts at the S.M.A.R.T. collection.
DailyLoop(g) ==
    /\ daily[g].pc = "loop"
    /\ IF shutdown_event
       THEN daily' = [daily EXCEPT ![g].pc = "dead"]
       ELSE /\ CanBegin(2)
            /\ daily' = [daily EXCEPT ![g].pc = "sm", ![g].first = FALSE,
                                      ![g].replaced = {}]
    /\ UNCHANGED <<store, config, lock, shutdown_event, realtime_thread,
                   daily_thread, rt, main, stdout, reader, now>>
    /\ UNCHANGED aside

\* ---------------------------------------------------------- read accessors
Accessors == {"get_hardware_info", "get_realtime_history", "get_disk_usage",
              "get_smart_info"}

\* The accessors subscripting the stored report (self._x['data']) in place
\* of copying it: KeyError on the {} of __init__.
AccessorResultSubscript(a) ==
    CASE a = "get_hardware_info" ->
           IF hardware_info = EmptyDict THEN [exception |-> "KeyError"]
           ELSE hardware_info
      [] a = "get_realtime_history" -> realtime_history.items
      [] a = "get_disk_usage" ->
           IF disk_usage = EmptyDict THEN [exception |-> "KeyError"]
           ELSE disk_usage
      [] a = "get_smart_info" ->
           IF smart_info = EmptyDict THEN [exception |-> "KeyError"]
           ELSE smart_info

\* dict.copy() and list(deque): a new container holding the same values.
AccessorResult(a) ==
    CASE a = "get_hardware_info" -> hardware_info
      [] a = "get_realtime_history" -> realtime_history.items
      [] a = "get_disk_usage" -> disk_usage
      [] a = "get_smart_info" -> smart_info

\* An accessor is called and takes the lock (with self._lock, the first
\* statement of each of the four).
ReaderCall ==
    /\ reader.pc = "idle"
    /\ lock = Free
    /\ lock' = <<"reader", 0>>
    /\ reader' = [reader EXCEPT !.pc = "locked"]
    /\ UNCHANGED <<store, config, shutdown_event, realtime_thread,
                   daily_thread, rt, daily, main, stdout, now>>
    /\ UNCHANGED aside

\* Accessor a returns its copy and releases the lock; the caller either
\* keeps the value it got or is done with it at once.
ReaderReturn(a, keep) ==
    /\ reader.pc = "locked"
    /\ reader' = IF keep
                 THEN [pc |-> "returned", acc |-> a, ret |-> <<AccessorResult(a)>>]
                 ELSE [pc |-> "idle", acc |-> "", ret |-> <<>>]
    /\ lock' = Free
    /\ UNCHANGED <<store, config, shutdown_event, realtime_thread,
                   daily_thread, rt, daily, main, stdout, now>>
    /\ UNCHANGED aside

\* create_app: start(app) runs once, at boot.
Boot ==
    /\ NextGen = 1
    /\ StartConfigure

\* The workers, and the callers of the accessors.
Threads ==
    \/ \E g \in Generations : RtLoop(g)
    \/ \E g \in Generations : RtSample(g)
    \/ \E g \in Generations : RtAppend(g)
    \/ \E g \in Generations : CollectHardwareInfoProbe(g)
    \/ \E g \in Generations : CollectHardwareInfoStore(g)
    \/ \E g \in Generations : CollectSmartInfoDataRun(g)
    \/ \E g \in Generations : CollectSmartInfoDataStore(g)
    \/ \E g \in Generations : CollectDailyDataScan(g)
    \/ \E g \in Generations : CollectDailyDataStore(g)
    \/ \E g \in Generations : DailyLoop(g)
    \/ ReaderCall
    \/ \E a \in Accessors : ReaderReturn(a, FALSE)

\* The service as the application runs it: start() at boot (a further call
\* finds it running), stop() at exit, the HTTP handlers reading.
Next ==
    \/ Boot
    \/ StartAlreadyRunning
    \/ StartThreads
    \/ StopSignal
    \/ StopJoinRealtime
    \/ StopJoinDaily
    \/ Threads

Spec == Init /\ [][Next]_vars

\* ---------------------------------------------------------------- fairness
\* Every thread that can run does run: a worker at its loop test, its wait
\* or its store goes on, stop() goes on through its joins, an accessor
\* returns, and a thread that waits for the lock gets it, the lock being
\* released again and again.  The threads are those of the start() at boot,
\* the only ones there are when NextGen = 1 guards the start.
Fairness ==
    /\ \A g \in {1} :
          /\ WF_vars(RtLoop(g))
          /\ SF_vars(RtSample(g))
          /\ WF_vars(RtAppend(g))
          /\ WF_vars(CollectHardwareInfoProbe(g))
          /\ WF_vars(CollectHardwareInfoStore(g))
          /\ WF_vars(CollectSmartInfoDataRun(g))
          /\ SF_vars(CollectSmartInfoDataRun(g) /\ daily'[g].pc = "sm_st")
          /\ WF_vars(CollectSmartInfoDataStore(g))
          /\ SF_vars(CollectDailyDataScan(g))
          /\ WF_vars(CollectDailyDataStore(g))
          /\ WF_vars(DailyLoop(g))
    /\ WF_vars(\E a \in Accessors : ReaderReturn(a, FALSE))
    /\ WF_vars(StopJoinRealtime)
    /\ WF_vars(StopJoinDaily)

FairSpec == Spec /\ Fairness

\* ------------------------------------------------- callers of the accessors
\* The objects a returned value shares with the store: dict.copy() and
\* list(deque) copy the outer container and hand out the very 'data' object
\* of a report and the very sample dicts of the history.  An object is
\* known by the accessor and the timestamp it was stored with.
SharedObjects(a, r) ==
    IF a = "get_realtime_history"
    THEN {<<a, r[i].timestamp>> : i \in 1..Len(r)}
    ELSE IF r = EmptyDict THEN {} ELSE {<<a, r.timestamp>>}

\* The objects the store holds now.
StoredObjects == UNION {SharedObjects(a, AccessorResult(a)) : a \in Accessors}

\* The caller empties the container it was given (h.clear(), l.clear()):
\* that one is its own.
CallerClearCopy ==
    /\ reader.pc = "returned"
    /\ reader.ret # <<IF reader.acc = "get_realtime_history" THEN <<>> ELSE EmptyDict>>
    /\ reader' = [reader EXCEPT !.ret =
                    <<IF reader.acc = "get_realtime_history" THEN <<>> ELSE EmptyDict>>]
    /\ UNCHANGED <<store, config, lock, shutdown_event, realtime_thread,
                   daily_thread, rt, daily, main, stdout, now>>
    /\ UNCHANGED aside

\* The caller writes into a nested object of the value it was given
\* (h['data']['cpu'] = ..., l[0]['data'] = ...).
CallerMutateNested ==
    /\ reader.pc = "returned"
    /\ Cardinality(mutated) < MaxMutations
    /\ \E o \in SharedObjects(reader.acc, reader.ret[1]) \ mutated :
          mutated' = mutated \cup {o}
    /\ UNCHANGED <<store, config, lock, shutdown_event, realtime_thread,
                   daily_thread, rt, daily, main, stdout, reader, now,
                   analysis, usage, smart, command, sample, probe>>

\* The caller drops the value.
CallerDone ==
    /\ reader.pc = "returned"
    /\ reader' = [pc |-> "idle", acc |-> "", ret |-> <<>>]
    /\ UNCHANGED <<store, config, lock, shutdown_event, realtime_thread,
                   daily_thread, rt, daily, main, stdout, now>>
    /\ UNCHANGED aside

\* The service as the application runs it, with callers that use what the
\* accessors gave them.
NextApp ==
    \/ Boot
    \/ StartAlreadyRunning
    \/ StartThreads
    \/ StopSignal
    \/ StopJoinRealtime
    \/ StopJoinDaily
    \/ Threads
    \/ \E a \in Accessors : ReaderReturn(a, TRUE)
    \/ CallerClearCopy
    \/ CallerMutateNested
    \/ CallerDone

SpecApp == Init /\ [][NextApp]_vars

\* The service under any sequence of start() and stop() calls.
NextRestart ==
    \/ StartConfigure
    \/ StartAlreadyRunning
    \/ StartThreads
    \/ StopSignal
    \/ StopJoinRealtime
    \/ StopJoinDaily
    \/ Threads

SpecRestart == Init /\ [][NextRestart]_vars

\* ----------------------------------------- _analyze_smart_data, step by step
\* The payloads an analysis is given.
SelfTests == {"passed", "failed", "missing"}
NvmeLogs ==
    {<<>>} \cup {<<[critical_warning |-> c, percentage_used |-> u]>> :
                   c \in {0, 1}, u \in {85, 90}}
AttrRows == {[id |-> i, raw |-> v] : i \in {5, 9, 197}, v \in {0, 3}}
Tables == UNION {[1..n -> AttrRows] : n \in 0..MaxRows}
AtaSections ==
    {[present |-> FALSE, has_table |-> FALSE, table |-> <<>>],
     [present |-> TRUE, has_table |-> FALSE, table |-> <<>>]} \cup
    {[present |-> TRUE, has_table |-> TRUE, table |-> t] : t \in Tables}
Temperatures == {<<>>, <<40>>, <<45>>, <<55>>, <<56>>}
Payloads ==
    {[smart_status |-> p, nvme |-> n, ata |-> a, temperature |-> t] :
       p \in SelfTests, n \in NvmeLogs, a \in AtaSections, t \in Temperatures}
RawInputs == {<<>>} \cup {<<p>> : p \in Payloads}

\* The service as constructed, and one call _analyze_smart_data(raw_data).
InitAnalysis ==
    /\ hardware_info = EmptyDict
    /\ realtime_history = [items |-> <<>>, maxlen |-> NoMaxlen]
    /\ disk_usage = EmptyDict
    /\ smart_info = EmptyDict
    /\ config = EmptyDict
    /\ lock = Free
    /\ shutdown_event = FALSE
    /\ realtime_thread = None
    /\ daily_thread = None
    /\ rt = [g \in Generations |-> NoWorker]
    /\ daily = [g \in Generations |-> NoThread]
    /\ main = [pc |-> "idle", max_len |-> 0]
    /\ stdout = ""
    /\ reader = [pc |-> "idle", acc |-> "", ret |-> <<>>]
    /\ now = 0
    /\ mutated = {}
    /\ \E raw \in RawInputs :
         analysis = [pc |-> "begin", raw |-> raw, rows |-> <<>>,
                     result |-> AnalysisStart]
    /\ usage = NoUsage
    /\ smart = NoSmart
    /\ command = NoCommand
    /\ sample = NoSample
    /\ probe = NoProbe

\* What a step of the analysis leaves alone.
service == <<hardware_info, realtime_history, disk_usage, smart_info, config,
             lock, shutdown_event, realtime_thread, daily_thread, rt, daily,
             main, stdout, reader, now, mutated, usage, smart, command,
             sample, probe>>

\* The analysis without the test if not raw_data: an absent payload comes
\* back with the empty lists and HEALTHY.
AnalyzeBeginUntested ==
    /\ analysis.pc = "begin"
    /\ analysis' = IF analysis.raw = <<>>
                   THEN [analysis EXCEPT !.pc = "done"]
                   ELSE [analysis EXCEPT !.pc = "self_test"]
    /\ UNCHANGED service

\* if not raw_data: the UNKNOWN report is returned; otherwise the empty lists
\* and status = HEALTHY.
AnalyzeBegin ==
    /\ analysis.pc = "begin"
    /\ analysis' = IF analysis.raw = <<>>
                   THEN [analysis EXCEPT !.pc = "done", !.result = UnknownAnalysis]
                   ELSE [analysis EXCEPT !.pc = "self_test"]
    /\ UNCHANGED service

AnalyzeSelfTest ==
    /\ analysis.pc = "self_test"
    /\ analysis' = [analysis EXCEPT !.pc = "nvme_critical",
                      !.result = RuleSelfTest(@, analysis.raw[1])]
    /\ UNCHANGED service

AnalyzeNvmeCritical ==
    /\ analysis.pc = "nvme_critical"
    /\ analysis' = [analysis EXCEPT !.pc = "nvme_life",
                      !.result = RuleNvmeCritical(@, analysis.raw[1])]
    /\ UNCHANGED service

AnalyzeNvmeLife ==
    /\ analysis.pc = "nvme_life"
    /\ analysis' = [analysis EXCEPT !.pc = "ata_begin",
                      !.result = RuleNvmeLife(@, analysis.raw[1])]
    /\ UNCHANGED service

\* if "ata_smart_attributes" in raw_data: for attr in ...["table"].
AnalyzeAtaBegin ==
    /\ analysis.pc = "ata_begin"
    /\ analysis' =
         IF AnalysisRaises(analysis.raw)
         THEN [analysis EXCEPT !.pc = "raised"]
         ELSE IF analysis.raw[1].ata.present
         THEN [analysis EXCEPT !.pc = "ata", !.rows = analysis.raw[1].ata.table]
         ELSE [analysis EXCEPT !.pc = "temperature"]
    /\ UNCHANGED service

\* One turn of the loop over the table.
AnalyzeAtaRow ==
    /\ analysis.pc = "ata"
    /\ analysis' =
         IF analysis.rows = <<>>
         THEN [analysis EXCEPT !.pc = "temperature"]
         ELSE [analysis EXCEPT !.rows = Tail(@),
                  !.result = RuleAta(@, Head(analysis.rows))]
    /\ UNCHANGED service

AnalyzeTemperature ==
    /\ analysis.pc = "temperature"
    /\ analysis' = [analysis EXCEPT !.pc = "default",
                      !.result = RuleTemperature(@, analysis.raw[1])]
    /\ UNCHANGED service

AnalyzeDefault ==
    /\ analysis.pc = "default"
    /\ analysis' = [analysis EXCEPT !.pc = "done", !.result = RuleDefault(@)]
    /\ UNCHANGED service

NextAnalysis ==
    \/ AnalyzeBegin
    \/ AnalyzeSelfTest
    \/ AnalyzeNvmeCritical
    \/ AnalyzeNvmeLife
    \/ AnalyzeAtaBegin
    \/ AnalyzeAtaRow
    \/ AnalyzeTemperature
    \/ AnalyzeDefault

SpecAnalysis == InitAnalysis /\ [][NextAnalysis]_vars

\* C2: no object the store holds has been written to by a caller: what a
\* caller does to a value an accessor returned, its nested data or the
\* samples of a returned history included, leaves the stored reports and
\* so what a later accessor call returns as they were.
C2_CopiesIndependent == mutated \cap StoredObjects = {}

\* C3: within one analysis pass the status never moves to a less severe
\* value: FAILED stays FAILED, and WARNING never goes back to HEALTHY.
C3_SeverityMonotonic ==
    [][/\ analysis.result.health_status = "FAILED"
          => analysis'.result.health_status = "FAILED"
       /\ analysis.result.health_status = "WARNING"
          => analysis'.result.health_status \in {"WARNING", "FAILED"}]_vars

\* A finished pass in which a WARNING rule fired after FAILED was set.
C3_Witness ==
    /\ analysis.pc = "done"
    /\ analysis.result.health_status = "FAILED"
    /\ analysis.result.summary =
         <<"self-test failed", "critical attribute", "temperature high">>

\* ----------------------------------------- _collect_daily_data, path by path
\* The paths of the configuration, and the lists a scan is given.
Paths == {"/home", "/mnt/home"}
PathLists == UNION {[1..n -> Paths] : n \in 0..MaxPaths}

\* The service as constructed, and one call _collect_daily_data() on a list
\* of paths and a filesystem.
InitUsage ==
    /\ hardware_info = EmptyDict
    /\ realtime_history = [items |-> <<>>, maxlen |-> NoMaxlen]
    /\ disk_usage = EmptyDict
    /\ smart_info = EmptyDict
    /\ \E c \in Configs, paths \in PathLists :
          /\ config = [c EXCEPT !.DISK_USAGE_PATHS = paths]
          /\ \E fs \in [Paths -> PathOutcomes] :
                usage = [pc |-> "scan", paths |-> paths, fs |-> fs, i |-> 1,
                         usage_data |-> <<>>, log |-> <<>>]
    /\ lock = Free
    /\ shutdown_event = FALSE
    /\ realtime_thread = None
    /\ daily_thread = None
    /\ rt = [g \in Generations |-> NoWorker]
    /\ daily = [g \in Generations |-> NoThread]
    /\ main = [pc |-> "idle", max_len |-> 0]
    /\ stdout = ""
    /\ reader = [pc |-> "idle", acc |-> "", ret |-> <<>>]
    /\ now = 0
    /\ mutated = {}
    /\ analysis = NoAnalysis
    /\ smart = NoSmart
    /\ command = NoCommand
    /\ sample = NoSample
    /\ probe = NoProbe

\* One turn of for path in paths_to_check.
CollectDailyDataPath ==
    /\ usage.pc = "scan"
    /\ usage.i <= Len(usage.paths)
    /\ LET path == usage.paths[usage.i]
       IN  usage' = [usage EXCEPT
                       !.i = @ + 1,
                       !.usage_data = @ \o PathEntry(path, usage.fs[path]),
                       !.log = @ \o PathLog(path, usage.fs[path])]
    /\ UNCHANGED <<store, config, lock, shutdown_event, realtime_thread,
                   daily_thread, rt, daily, main, stdout, reader, now,
                   mutated, analysis, smart, command, sample, probe>>

\* The loop is through: with self._lock.
CollectDailyDataLock ==
    /\ usage.pc = "scan"
    /\ usage.i > Len(usage.paths)
    /\ lock = Free
    /\ lock' = <<"usage", 0>>
    /\ usage' = [usage EXCEPT !.pc = "store"]
    /\ UNCHANGED <<store, config, shutdown_event, realtime_thread,
                   daily_thread, rt, daily, main, stdout, reader, now,
                   mutated, analysis, smart, command, sample, probe>>

\* self._disk_usage = {'timestamp': ..., 'data': usage_data}
CollectDailyDataReturn ==
    /\ usage.pc = "store"
    /\ now' = now + 1
    /\ disk_usage' = [timestamp |-> now', data |-> usage.usage_data]
    /\ lock' = Free
    /\ usage' = [usage EXCEPT !.pc = "done"]
    /\ UNCHANGED <<hardware_info, realtime_history, smart_info, config,
                   shutdown_event, realtime_thread, daily_thread, rt, daily,
                   main, stdout, reader, mutated, analysis, smart, command,
                   sample, probe>>

NextUsage ==
    \/ CollectDailyDataPath
    \/ CollectDailyDataLock
    \/ CollectDailyDataReturn

SpecUsage == InitUsage /\ [][NextUsage]_vars

\* ------------------------------------ _collect_all_smart_info, device by device
\* The devices a scan lists, what smartctl -a -j gives for one (<<>> when
\* the command or the parse failed), and the scans of one collection.
Devices == {"/dev/sda", "/dev/sdb"}
FailedPayload == [PassedPayload EXCEPT !.smart_status = "failed"]
DeviceRaws == {<<>>, <<PassedPayload>>, <<FailedPayload>>, <<NoTablePayload>>}
DeviceLists ==
    UNION {[1..n -> [path : Devices, raw : DeviceRaws]] : n \in 0..MaxDevices}
Scans ==
    {[ok |-> FALSE, devices |-> <<>>]} \cup
    {[ok |-> TRUE, devices |-> d] : d \in DeviceLists}

\* The service as constructed, and one call _collect_all_smart_info().
InitSmart ==
    /\ hardware_info = EmptyDict
    /\ realtime_history = [items |-> <<>>, maxlen |-> NoMaxlen]
    /\ disk_usage = EmptyDict
    /\ smart_info = EmptyDict
    /\ config = EmptyDict
    /\ lock = Free
    /\ shutdown_event = FALSE
    /\ realtime_thread = None
    /\ daily_thread = None
    /\ rt = [g \in Generations |-> NoWorker]
    /\ daily = [g \in Generations |-> NoThread]
    /\ main = [pc |-> "idle", max_len |-> 0]
    /\ stdout = ""
    /\ reader = [pc |-> "idle", acc |-> "", ret |-> <<>>]
    /\ now = 0
    /\ mutated = {}
    /\ analysis = NoAnalysis
    /\ usage = NoUsage
    /\ \E scan \in Scans :
          smart = [pc |-> "scan", scan |-> scan, i |-> 1, keys |-> <<>>,
                   final_report |-> [device_list |-> <<>>,
                                     disk_info |-> EmptyDict],
                   log |-> <<>>]
    /\ command = NoCommand
    /\ sample = NoSample
    /\ probe = NoProbe

\* What a step of the collection leaves alone.
besides == <<hardware_info, realtime_history, disk_usage, smart_info, config,
             lock, shutdown_event, realtime_thread, daily_thread, rt, daily,
             main, stdout, reader, now, mutated, analysis, usage, command,
             sample, probe>>

\* success, devices_or_msg = self._get_smart_device_list(); on a failure
\* the error is logged and the empty final_report returned.
CollectAllSmartInfoScan ==
    /\ smart.pc = "scan"
    /\ smart' = IF smart.scan.ok
                THEN [smart EXCEPT !.pc = "devices"]
                ELSE [smart EXCEPT !.pc = "done",
                         !.log = Append(@, [level |-> "error", path |-> "scan"])]
    /\ UNCHANGED besides

\* The loop over the devices left at the first device whose payload could
\* not be fetched.
CollectAllSmartInfoDeviceBreaking ==
    /\ smart.pc = "devices"
    /\ smart.i <= Len(smart.scan.devices)
    /\ LET dev == smart.scan.devices[smart.i]
           entry == [raw_smart_data |-> dev.raw,
                     analysis |-> AnalyzeSmartData(dev.raw)]
           old == smart.final_report.disk_info
       IN  smart' =
             IF AnalysisRaises(dev.raw)
             THEN [smart EXCEPT !.pc = "raised"]
             ELSE [smart EXCEPT
                     !.i = IF dev.raw = <<>> THEN Len(smart.scan.devices) + 1
                           ELSE @ + 1,
                     !.keys = KeysInOrder(@, <<dev.path>>),
                     !.final_report.disk_info =
                        [q \in DOMAIN old \cup {dev.path} |->
                           IF q = dev.path THEN entry ELSE old[q]],
                     !.log = IF dev.raw = <<>>
                             THEN Append(@, [level |-> "error", path |-> dev.path])
                             ELSE @]
    /\ UNCHANGED besides

\* One turn of for device_info in devices_or_msg.
CollectAllSmartInfoDevice ==
    /\ smart.pc = "devices"
    /\ smart.i <= Len(smart.scan.devices)
    /\ LET dev == smart.scan.devices[smart.i]
           entry == [raw_smart_data |-> dev.raw,
                     analysis |-> AnalyzeSmartData(dev.raw)]
           old == smart.final_report.disk_info
       IN  smart' =
             IF AnalysisRaises(dev.raw)
             THEN [smart EXCEPT !.pc = "raised"]
             ELSE [smart EXCEPT
                     !.i = @ + 1,
                     !.keys = KeysInOrder(@, <<dev.path>>),
                     !.final_report.disk_info =
                        [q \in DOMAIN old \cup {dev.path} |->
                           IF q = dev.path THEN entry ELSE old[q]],
                     !.log = IF dev.raw = <<>>
                             THEN Append(@, [level |-> "error", path |-> dev.path])
                             ELSE @]
    /\ UNCHANGED besides

\* final_report["device_list"] = list(final_report["disk_info"].keys()).
CollectAllSmartInfoReturn ==
    /\ smart.pc = "devices"
    /\ smart.i > Len(smart.scan.devices)
    /\ smart' = [smart EXCEPT !.pc = "done",
                              !.final_report.device_list = smart.keys]
    /\ UNCHANGED besides

NextSmart ==
    \/ CollectAllSmartInfoScan
    \/ CollectAllSmartInfoDevice
    \/ CollectAllSmartInfoReturn

SpecSmart == InitSmart /\ [][NextSmart]_vars

\* ------------------------------------------- analyses in the running service
\* The payloads handed to the analysis while the service runs.
HotPayload == [PassedPayload EXCEPT !.temperature = <<56>>]
ServiceRaws == {<<>>, <<PassedPayload>>, <<HotPayload>>}

\* The service as constructed, and a first call _analyze_smart_data(raw).
InitService ==
    /\ hardware_info = EmptyDict
    /\ realtime_history = [items |-> <<>>, maxlen |-> NoMaxlen]
    /\ disk_usage = EmptyDict
    /\ smart_info = EmptyDict
    /\ config = EmptyDict
    /\ lock = Free
    /\ shutdown_event = FALSE
    /\ realtime_thread = None
    /\ daily_thread = None
    /\ rt = [g \in Generations |-> NoWorker]
    /\ daily = [g \in Generations |-> NoThread]
    /\ main = [pc |-> "idle", max_len |-> 0]
    /\ stdout = ""
    /\ reader = [pc |-> "idle", acc |-> "", ret |-> <<>>]
    /\ now = 0
    /\ mutated = {}
    /\ \E raw \in ServiceRaws :
         analysis = [pc |-> "begin", raw |-> raw, rows |-> <<>>,
                     result |-> AnalysisStart]
    /\ usage = NoUsage
    /\ smart = NoSmart
    /\ command = NoCommand
    /\ sample = NoSample
    /\ probe = NoProbe

\* A further call with the payload of the one that has returned.
AnalyzeAgain ==
    /\ analysis.pc = "done"
    /\ analysis' = [pc |-> "begin", raw |-> analysis.raw, rows |-> <<>>,
                    result |-> AnalysisStart]
    /\ UNCHANGED service

\* The service running, start(), stop() and the accessors being called, and
\* the analysis called again and again on a payload.
NextService ==
    \/ Next
    \/ NextAnalysis
    \/ AnalyzeAgain

SpecService == InitService /\ [][NextService]_vars

\* ------------------------------------------------------------- _run_command
\* The characters of an output and the length of the outputs tried.
MaxText == 2
Chars == {" ", "\n", "x"}
Texts == UNION {[1..n -> Chars] : n \in 0..MaxText}

\* str.strip(): the text without its leading and trailing whitespace.
RECURSIVE LStrip(_)
LStrip(t) == IF t # <<>> /\ Head(t) \in {" ", "\n"} THEN LStrip(Tail(t)) ELSE t
RECURSIVE RStrip(_)
RStrip(t) ==
    IF t # <<>> /\ t[Len(t)] \in {" ", "\n"}
    THEN RStrip(SubSeq(t, 1, Len(t) - 1)) ELSE t
Strip(t) == RStrip(LStrip(t))

\* The command lines the service hands to _run_command, with their use_sudo.
CommandLines ==
    {[command |-> <<"lscpu">>, use_sudo |-> FALSE],
     [command |-> <<"dmidecode", "-t", "baseboard">>, use_sudo |-> TRUE],
     [command |-> <<"lsblk", "-d", "-o", "NAME,MODEL,SIZE", "--bytes",
                    "--noheadings">>, use_sudo |-> FALSE],
     [command |-> <<"smartctl", "--scan-open", "-j">>, use_sudo |-> TRUE],
     [command |-> <<"smartctl", "-a", "-j", "/dev/sda">>, use_sudo |-> TRUE]}

\* What the program does when it is run: it is not there, it runs beyond
\* the timeout, its output is no UTF-8, or it exits with a return code
\* having written its two outputs.
Children ==
    {[found |-> FALSE, timely |-> TRUE, decodable |-> TRUE, returncode |-> 0,
      stdout |-> <<>>, stderr |-> <<>>],
     [found |-> TRUE, timely |-> FALSE, decodable |-> TRUE, returncode |-> 0,
      stdout |-> <<>>, stderr |-> <<>>]} \cup
    {[found |-> TRUE, timely |-> TRUE, decodable |-> FALSE, returncode |-> c,
      stdout |-> <<>>, stderr |-> <<>>] : c \in {0, 1}} \cup
    {[found |-> TRUE, timely |-> TRUE, decodable |-> TRUE, returncode |-> c,
      stdout |-> o, stderr |-> e] :
        c \in {0, 1, 2}, o \in Texts, e \in {<<>>, <<"x">>, <<"x", "\n">>}}

\* subprocess.run without check=True: a return code other than 0 is no
\* exception.
SubprocessRunUnchecked(child) ==
    IF ~child.found THEN [kind |-> "FileNotFoundError", child |-> child]
    ELSE IF ~child.timely THEN [kind |-> "TimeoutExpired", child |-> child]
    ELSE IF ~child.decodable THEN [kind |-> "Exception", child |-> child]
    ELSE [kind |-> "completed", child |-> child]

\* subprocess.run(full_command, capture_output=True, text=True, check=True,
\* encoding='utf-8', timeout=60): the completed process, or the exception
\* raised.
SubprocessRun(child) ==
    IF ~child.found THEN [kind |-> "FileNotFoundError", child |-> child]
    ELSE IF ~child.timely THEN [kind |-> "TimeoutExpired", child |-> child]
    ELSE IF ~child.decodable THEN [kind |-> "Exception", child |-> child]
    ELSE IF child.returncode # 0
    THEN [kind |-> "CalledProcessError", child |-> child]
    ELSE [kind |-> "completed", child |-> child]

\* The pair _run_command returns: the return statement of the try, or that
\* of the except clause the exception enters.
RunCommandResult(full_command, run) ==
    CASE run.kind = "completed" -> <<TRUE, Strip(run.child.stdout)>>
      [] run.kind = "FileNotFoundError" ->
            <<FALSE, <<"command not found", full_command[1]>>>>
      [] run.kind = "TimeoutExpired" ->
            <<FALSE, <<"command timed out">> \o full_command>>
      [] run.kind = "CalledProcessError" ->
            <<FALSE, <<"command failed">> \o full_command
                       \o (IF run.child.stderr # <<>>
                           THEN Strip(run.child.stderr)
                           ELSE Strip(run.child.stdout))
                       \o <<run.child.returncode>>>>
      [] OTHER -> <<FALSE, <<"unknown error">>>>

\* The service as constructed, and one call _run_command(command, use_sudo).
InitCommand ==
    /\ hardware_info = EmptyDict
    /\ realtime_history = [items |-> <<>>, maxlen |-> NoMaxlen]
    /\ disk_usage = EmptyDict
    /\ smart_info = EmptyDict
    /\ config = EmptyDict
    /\ lock = Free
    /\ shutdown_event = FALSE
    /\ realtime_thread = None
    /\ daily_thread = None
    /\ rt = [g \in Generations |-> NoWorker]
    /\ daily = [g \in Generations |-> NoThread]
    /\ main = [pc |-> "idle", max_len |-> 0]
    /\ stdout = ""
    /\ reader = [pc |-> "idle", acc |-> "", ret |-> <<>>]
    /\ now = 0
    /\ mutated = {}
    /\ analysis = NoAnalysis
    /\ usage = NoUsage
    /\ smart = NoSmart
    /\ \E line \in CommandLines :
          command = [NoCommand EXCEPT !.pc = "call",
                                      !.command = line.command,
                                      !.use_sudo = line.use_sudo]
    /\ sample = NoSample
    /\ probe = NoProbe

\* What a step of _run_command leaves alone.
beyond == <<hardware_info, realtime_history, disk_usage, smart_info, config,
            lock, shutdown_event, realtime_thread, daily_thread, rt, daily,
            main, stdout, reader, now, mutated, analysis, usage, smart,
            sample, probe>>

\* full_command = ['sudo'] + command if use_sudo else command
RunCommandBegin ==
    /\ command.pc = "call"
    /\ command' = [command EXCEPT
                     !.pc = "run",
                     !.full_command = IF command.use_sudo
                                      THEN <<"sudo">> \o command.command
                                      ELSE command.command]
    /\ UNCHANGED beyond

\* The one subprocess.run of the try.
RunCommandSubprocess ==
    /\ command.pc = "run"
    /\ \E child \in Children :
          command' = [command EXCEPT !.pc = "returning",
                                     !.run = <<SubprocessRun(child)>>,
                                     !.spawned = @ + 1]
    /\ UNCHANGED beyond

\* return True, result.stdout.strip(), or the return False, ... of an
\* except clause.
RunCommandReturn ==
    /\ command.pc = "returning"
    /\ command' = [command EXCEPT
                     !.pc = "done",
                     !.ret = RunCommandResult(command.full_command,
                                              command.run[1])]
    /\ UNCHANGED beyond

NextCommand ==
    \/ RunCommandBegin
    \/ RunCommandSubprocess
    \/ RunCommandReturn

SpecCommand == InitCommand /\ [][NextCommand]_vars

\* ------------------------------- _realtime_collection_loop, query by query
\* The GPUs nvmlDeviceGetCount reports, and the turns of the loop followed.
MaxGpus == 2
MaxTurns == 2

\* The service after start(), and the realtime thread entering its loop
\* on a host with or without the pynvml library.
InitSample ==
    /\ hardware_info = EmptyDict
    /\ disk_usage = EmptyDict
    /\ smart_info = EmptyDict
    /\ \E c \in Configs :
          /\ config = c
          /\ realtime_history = [items |-> <<>>, maxlen |-> MaxLenOf(c)]
    /\ lock = Free
    /\ shutdown_event = FALSE
    /\ realtime_thread = None
    /\ daily_thread = None
    /\ rt = [g \in Generations |-> NoWorker]
    /\ daily = [g \in Generations |-> NoThread]
    /\ main = [pc |-> "idle", max_len |-> 0]
    /\ stdout = ""
    /\ reader = [pc |-> "idle", acc |-> "", ret |-> <<>>]
    /\ now = 0
    /\ mutated = {}
    /\ analysis = NoAnalysis
    /\ usage = NoUsage
    /\ smart = NoSmart
    /\ command = NoCommand
    /\ \E n \in BOOLEAN :
          sample = [NoSample EXCEPT !.pc = "begin", !.nvidia = n, !.turns = 1]
    /\ probe = NoProbe

\* What a query of the turn leaves alone.
around == <<hardware_info, disk_usage, smart_info, config, shutdown_event,
            realtime_thread, daily_thread, rt, daily, main, stdout, reader,
            mutated, analysis, usage, smart, command, probe>>

\* status = {}, the CPU and memory readings, gpus = [].
SampleCpuMemory ==
    /\ sample.pc = "begin"
    /\ sample' = [sample EXCEPT
                    !.pc = IF sample.nvidia THEN "nvml_init" ELSE "status",
                    !.status = [cpu |-> "usage_percent_total",
                                memory |-> "total_bytes, used_bytes"],
                    !.gpus = <<>>]
    /\ UNCHANGED <<around, realtime_history, lock, now>>

\* pynvml.nvmlInit() and nvmlDeviceGetCount(): the count, or NVMLError.
SampleNvmlInit ==
    /\ sample.pc = "nvml_init"
    /\ \/ \E n \in 0..MaxGpus :
             sample' = [sample EXCEPT !.pc = "gpu", !.device_count = n, !.i = 0]
       \/ sample' = [sample EXCEPT !.pc = "except"]
    /\ UNCHANGED <<around, realtime_history, lock, now>>

\* One turn of for i in range(device_count): the queries of GPU i and
\* gpus.append, or NVMLError from one of the queries; after the last turn
\* nvmlShutdown(), which returns or raises NVMLError.
SampleGpu ==
    /\ sample.pc = "gpu"
    /\ IF sample.i < sample.device_count
       THEN \/ sample' = [sample EXCEPT
                            !.gpus = Append(@, [id |-> sample.i]),
                            !.i = @ + 1]
            \/ sample' = [sample EXCEPT !.pc = "except"]
       ELSE \/ sample' = [sample EXCEPT !.pc = "status"]
            \/ sample' = [sample EXCEPT !.pc = "except"]
    /\ UNCHANGED <<around, realtime_history, lock, now>>

\* except pynvml.NVMLError: the warning is logged.
SampleExcept ==
    /\ sample.pc = "except"
    /\ sample' = [sample EXCEPT
                    !.pc = "status",
                    !.failed = TRUE,
                    !.log = Append(@, [level |-> "warning", turn |-> sample.turns])]
    /\ UNCHANGED <<around, realtime_history, lock, now>>

\* status['gpus'] = gpus, then with self._lock.
SampleStatus ==
    /\ sample.pc = "status"
    /\ lock = Free
    /\ lock' = <<"sample", 0>>
    /\ sample' = [sample EXCEPT
                    !.pc = "append",
                    !.status = [cpu |-> sample.status.cpu,
                                memory |-> sample.status.memory,
                                gpus |-> sample.gpus]]
    /\ UNCHANGED <<around, realtime_history, now>>

\* self._realtime_history.append({'timestamp': ..., 'data': status})
SampleAppend ==
    /\ sample.pc = "append"
    /\ now' = now + 1
    /\ realtime_history' =
          DequeAppend(realtime_history,
                      [timestamp |-> now', data |-> sample.status])
    /\ lock' = Free
    /\ sample' = [sample EXCEPT !.pc = "wait"]
    /\ UNCHANGED around

\* self._shutdown_event.wait(timeout=interval) runs out and the loop turns.
SampleWait ==
    /\ sample.pc = "wait"
    /\ ~shutdown_event
    /\ sample.turns < MaxTurns
    /\ sample' = [NoSample EXCEPT !.pc = "begin",
                                  !.nvidia = sample.nvidia,
                                  !.log = sample.log,
                                  !.turns = sample.turns + 1]
    /\ UNCHANGED <<around, realtime_history, lock, now>>

NextSample ==
    \/ SampleCpuMemory
    \/ SampleNvmlInit
    \/ SampleGpu
    \/ SampleExcept
    \/ SampleStatus
    \/ SampleAppend
    \/ SampleWait

SpecSample == InitSample /\ [][NextSample]_vars

\* ------------------------------------ _collect_hardware_info, probe by probe
\* What the tools give on a host. platform.freedesktop_os_release: the
\* fields of the os-release file, OSError when there is no such file, or no
\* such function in the platform module. A command: output, no output, or
\* the failure pair of _run_command. NVML: no library, or the count of GPUs
\* with the query that raises NVMLError: -1 for nvmlInit or
\* nvmlDeviceGetCount, k for a query of GPU k, the count itself for none.
OsReleases == {"fields", "OSError", "no function"}
Outputs == {"output", "empty", "failed"}
NvmlsOf(n) == {<<[count |-> n, raising |-> k]>> : k \in -1..n}
Nvmls == {<<>>} \cup UNION {NvmlsOf(n) : n \in 0..MaxGpus}
Hosts ==
    [os_release : OsReleases, lscpu : Outputs, dmidecode : Outputs,
     nvml : Nvmls, lsblk : Outputs]

\* The pair _run_command returns for a tool.
ToolResult(out) ==
    CASE out = "output" -> <<TRUE, "text">>
      [] out = "empty" -> <<TRUE, "">>
      [] OTHER -> <<FALSE, "message">>

\* gpus after the try: the GPUs appended before the exception, all of them
\* when there was none.
RECURSIVE GpusRead(_)
GpusRead(n) == IF n <= 0 THEN <<>> ELSE Append(GpusRead(n - 1), [id |-> n - 1])
ProbedGpus(nvml) ==
    IF nvml = <<>> THEN <<>>
    ELSE IF nvml[1].raising < nvml[1].count
    THEN GpusRead(nvml[1].raising)
    ELSE GpusRead(nvml[1].count)

\* The service as constructed, and one call _collect_hardware_info() on a
\* host.
InitProbe ==
    /\ hardware_info = EmptyDict
    /\ realtime_history = [items |-> <<>>, maxlen |-> NoMaxlen]
    /\ disk_usage = EmptyDict
    /\ smart_info = EmptyDict
    /\ config = EmptyDict
    /\ lock = Free
    /\ shutdown_event = FALSE
    /\ realtime_thread = None
    /\ daily_thread = None
    /\ rt = [g \in Generations |-> NoWorker]
    /\ daily = [g \in Generations |-> NoThread]
    /\ main = [pc |-> "idle", max_len |-> 0]
    /\ stdout = ""
    /\ reader = [pc |-> "idle", acc |-> "", ret |-> <<>>]
    /\ now = 0
    /\ mutated = {}
    /\ analysis = NoAnalysis
    /\ usage = NoUsage
    /\ smart = NoSmart
    /\ command = NoCommand
    /\ sample = NoSample
    /\ \E h \in Hosts : probe = [NoProbe EXCEPT !.pc = "os", !.host = h]

\* What a sub-probe leaves alone.
outside == <<realtime_history, disk_usage, smart_info, config, shutdown_event,
             realtime_thread, daily_thread, rt, daily, main, stdout, reader,
             mutated, analysis, usage, smart, command, sample>>

\* os_release = platform.freedesktop_os_release() if hasattr(...) else {},
\* and info['os']: OSError leaves the routine.
ProbeOs ==
    /\ probe.pc = "os"
    /\ probe' =
         IF probe.host.os_release = "OSError"
         THEN [probe EXCEPT !.pc = "raised"]
         ELSE [probe EXCEPT
                 !.pc = "cpu",
                 !.info = [os |-> [distro |->
                                     IF probe.host.os_release = "fields"
                                     THEN "PRETTY_NAME" ELSE "N/A"]]]
    /\ UNCHANGED <<outside, hardware_info, lock, now>>

\* lscpu: its fields when it succeeded with output, 'N/A' otherwise.
ProbeCpu ==
    /\ probe.pc = "cpu"
    /\ LET r == ToolResult(probe.host.lscpu)
       IN  probe' = [probe EXCEPT
                       !.pc = "motherboard",
                       !.info = [os |-> probe.info.os,
                                 cpu |-> IF r[1] /\ r[2] # ""
                                         THEN "lscpu fields" ELSE "N/A"]]
    /\ UNCHANGED <<outside, hardware_info, lock, now>>

\* sudo dmidecode -t baseboard: its fields, or 'N/A'.
ProbeMotherboard ==
    /\ probe.pc = "motherboard"
    /\ LET r == ToolResult(probe.host.dmidecode)
       IN  probe' = [probe EXCEPT
                       !.pc = "memory",
                       !.info = [os |-> probe.info.os, cpu |-> probe.info.cpu,
                                 motherboard |-> IF r[1] /\ r[2] # ""
                                                 THEN "dmidecode fields"
                                                 ELSE "N/A"]]
    /\ UNCHANGED <<outside, hardware_info, lock, now>>

\* psutil.virtual_memory(), then the GPUs: the list as the try left it, the
\* warning logged when NVMLError was raised.
ProbeMemoryGpus ==
    /\ probe.pc = "memory"
    /\ LET nvml == probe.host.nvml
       IN  probe' = [probe EXCEPT
                       !.pc = "disks",
                       !.info = [os |-> probe.info.os, cpu |-> probe.info.cpu,
                                 motherboard |-> probe.info.motherboard,
                                 memory |-> "total_bytes",
                                 gpus |-> ProbedGpus(nvml)],
                       !.log = IF nvml # <<>> /\ nvml[1].raising < nvml[1].count
                               THEN Append(@, "warning") ELSE @]
    /\ UNCHANGED <<outside, hardware_info, lock, now>>

\* lsblk: the disks of its lines, none when it failed or printed nothing.
ProbeDisks ==
    /\ probe.pc = "disks"
    /\ LET r == ToolResult(probe.host.lsblk)
       IN  probe' = [probe EXCEPT
                       !.pc = "store",
                       !.info = [os |-> probe.info.os, cpu |-> probe.info.cpu,
                                 motherboard |-> probe.info.motherboard,
                                 memory |-> probe.info.memory,
                                 gpus |-> probe.info.gpus,
                                 disks |-> IF r[1] /\ r[2] # ""
                                           THEN <<"lsblk line">> ELSE <<>>]]
    /\ UNCHANGED <<outside, hardware_info, lock, now>>

\* with self._lock: self._hardware_info = {'timestamp': ..., 'data': info}
ProbeStore ==
    /\ probe.pc = "store"
    /\ lock = Free
    /\ now' = now + 1
    /\ hardware_info' = [timestamp |-> now', data |-> probe.info]
    /\ probe' = [probe EXCEPT !.pc = "done"]
    /\ UNCHANGED <<outside, lock>>

NextProbe ==
    \/ ProbeOs
    \/ ProbeCpu
    \/ ProbeMotherboard
    \/ ProbeMemoryGpus
    \/ ProbeDisks
    \/ ProbeStore

SpecProbe == InitProbe /\ [][NextProbe]_vars

\* ------------------------------------------------------------------ claims
\* C1: after start() with retention minutes R and interval I the realtime
\* history never holds more than floor(R * 60 / I) samples, and an append
\* to a full history removes the oldest sample and keeps the order of the
\* others.
C1_BoundedFifo ==
    /\ [](main.pc # "start_lock" /\ config # EmptyDict
            => Len(realtime_history.items) <=
                 (config.REALTIME_RETENTION_MINUTES * 60)
                    \div config.REALTIME_COLLECTION_INTERVAL)
    /\ [][\A g \in Generations :
            rt[g].pc = "append" /\ rt'[g].pc = "loop"
               /\ main.pc # "start_lock" =>
              LET cap == (config.REALTIME_RETENTION_MINUTES * 60)
                            \div config.REALTIME_COLLECTION_INTERVAL
                  old == realtime_history.items
                  new == realtime_history'.items
              IN  IF cap = 0 THEN new = <<>>
                  ELSE /\ new[Len(new)].timestamp = now'
                       /\ IF Len(old) = cap
                          THEN SubSeq(new, 1, Len(new) - 1) = Tail(old)
                          ELSE SubSeq(new, 1, Len(new) - 1) = old]_vars

\* The one service started once with capacity 1 has taken two samples and
\* holds the second: the first was evicted.
C1_Witness ==
    /\ NextGen = 2
    /\ main.pc = "idle"
    /\ config # EmptyDict
    /\ config.REALTIME_COLLECTION_INTERVAL = 45
    /\ hardware_info = EmptyDict
    /\ Len(realtime_history.items) = 1
    /\ realtime_history.items[1].timestamp = 2

\* C4: start() while the service is running creates no worker, does not
\* clear the shutdown event, and leaves the configuration and the realtime
\* history (items and maxlen) as they were.
C4_StartWhileRunningNoOp ==
    [][main.pc = "idle" /\ realtime_thread # None
          /\ IsAlive(rt[realtime_thread]) =>
         /\ main'.pc # "start_lock"
         /\ stdout' = "SystemInfoService is already running." /\ stdout' # stdout
              => UNCHANGED <<store, config, shutdown_event, realtime_thread,
                             daily_thread, rt, daily>>]_vars

\* start() has been called on a running service that holds samples.
C4_Witness ==
    /\ stdout = "SystemInfoService is already running."
    /\ realtime_thread # None
    /\ IsAlive(rt[realtime_thread])
    /\ Len(realtime_history.items) > 0

\* C5: once stop() has set the event on the started service, both workers
\* come to their end; a worker that finds the event set at its loop test or
\* its wait begins no further cycle; and stop() itself returns.
C5_StopTerminatesWorkers ==
    /\ (shutdown_event /\ NextGen > 1)
          ~> (\A g \in Generations : ~IsAlive(rt[g]) /\ ~IsAlive(daily[g]))
    /\ (main.pc \in {"join_rt", "join_daily"}) ~> (main.pc = "idle")
    /\ [][\A g \in Generations :
            /\ shutdown_event /\ rt[g].pc = "loop"
                 => rt'[g].pc \in {"loop", "dead"}
            /\ shutdown_event /\ daily[g].pc = "loop"
                 => daily'[g].pc \in {"loop", "dead"}]_vars

\* stop() has returned and both workers, which had stored their reports
\* and samples, have left their loops on the event.
C5_Witness ==
    /\ stdout = "SystemInfoService stopped."
    /\ shutdown_event
    /\ rt[1].pc = "dead"
    /\ daily[1].pc = "dead"
    /\ disk_usage # EmptyDict
    /\ realtime_history.items # <<>>

\* C6: no worker is ended by an error raised inside a collection routine.
C6_NoWorkerEndedByError ==
    \A g \in Generations : daily[g].pc # "raised" /\ rt[g].pc # "raised"

C8_AccessorsNeverRaise ==
    reader.pc = "locked" =>
       /\ \A a \in Accessors \ {"get_realtime_history"} :
             \/ AccessorResult(a) = EmptyDict
             \/ /\ DOMAIN AccessorResult(a) = {"timestamp", "data"}
                /\ AccessorResult(a).timestamp \in 1..now
       /\ AccessorResult("get_hardware_info") = hardware_info
       /\ AccessorResult("get_disk_usage") = disk_usage
       /\ AccessorResult("get_smart_info") = smart_info
       /\ AccessorResult("get_realtime_history") = realtime_history.items
       /\ \A i \in 1..Len(AccessorResult("get_realtime_history")) :
             AccessorResult("get_realtime_history")[i].timestamp \in 1..now
       /\ now = 0 =>
             /\ \A a \in Accessors \ {"get_realtime_history"} :
                   AccessorResult(a) = EmptyDict
             /\ AccessorResult("get_realtime_history") = <<>>

\* An accessor holds the lock before start() was ever called.
C8_Witness ==
    /\ reader.pc = "locked"
    /\ config = EmptyDict
    /\ NextGen = 1
    /\ now = 0

\* C9: the three slow reports are replaced whole: whenever a reader can
\* look, each is {} or complete; a report changes only in the store step of
\* the thread that holds the lock, to the value that thread had built, so the
\* old report stays while the new one is built; and nothing changes while a
\* reader holds the lock.
C9_AtomicReplacement ==
    /\ [](/\ hardware_info = EmptyDict \/ hardware_info.data = AllSections
          /\ disk_usage = EmptyDict
               \/ \A i \in 1..Len(disk_usage.data) :
                     DOMAIN disk_usage.data[i] = {"path", "users"}
          /\ smart_info = EmptyDict
               \/ {smart_info.data.device_list[i] :
                      i \in 1..Len(smart_info.data.device_list)}
                    = DOMAIN smart_info.data.disk_info)
    /\ [][/\ hardware_info' # hardware_info =>
               \E g \in Generations :
                  /\ lock = <<"daily", g>> /\ daily[g].pc = "hw_st"
                  /\ hardware_info'.data = daily[g].local[1]
          /\ smart_info' # smart_info =>
               \E g \in Generations :
                  /\ lock = <<"daily", g>> /\ daily[g].pc = "sm_st"
                  /\ smart_info'.data = daily[g].local[1]
          /\ disk_usage' # disk_usage =>
               \E g \in Generations :
                  /\ lock = <<"daily", g>> /\ daily[g].pc = "du_st"
                  /\ disk_usage'.data = daily[g].local[1]
          /\ reader.pc = "locked" =>
               UNCHANGED <<hardware_info, disk_usage, smart_info>>]_vars

\* A reader holds the lock on the first S.M.A.R.T. report while the slow
\* worker collects the second.
C9_Witness ==
    /\ reader.pc = "locked"
    /\ smart_info # EmptyDict
    /\ \E g \in Generations : daily[g].pc = "sm" /\ ~daily[g].first

\* C10: a worker that is running an external command, querying a library
\* or walking a directory does not hold the lock; the lock is held only by
\* an accessor copying or by a worker at its store or append.
C10_NoLockWhileCollecting ==
    /\ \A g \in Generations :
          /\ daily[g].pc \in {"hw", "sm", "du"} => lock # <<"daily", g>>
          /\ rt[g].pc = "sample" => lock # <<"rt", g>>
          /\ lock = <<"daily", g>> => daily[g].pc \in {"hw_st", "sm_st", "du_st"}
          /\ lock = <<"rt", g>> => rt[g].pc = "append"
    /\ lock = <<"reader", 0>> <=> reader.pc = "locked"

\* A reader holds the lock while both workers are collecting.
C10_Witness ==
    /\ reader.pc = "locked"
    /\ \E g \in Generations : daily[g].pc = "du" /\ rt[g].pc = "sample"

\* C11: the samples of the realtime history are in strict order of their
\* timestamps, and each of them is a whole sample: timestamp and data.
C11_HistoryChronological ==
    /\ \A i \in 1..Len(realtime_history.items) - 1 :
          realtime_history.items[i].timestamp
             < realtime_history.items[i + 1].timestamp
    /\ \A i \in 1..Len(realtime_history.items) :
          /\ DOMAIN realtime_history.items[i] = {"timestamp", "data"}
          /\ realtime_history.items[i].data = "status"
    /\ reader.pc = "locked" =>
          AccessorResult("get_realtime_history") = realtime_history.items

\* A reader holds the lock on a history of two samples taken by the threads
\* of two start() calls.
C11_Witness ==
    /\ reader.pc = "locked"
    /\ Len(realtime_history.items) = 2
    /\ NextGen = 3

\* C12: whatever the service does between and during the calls, every call
\* of the analysis on a payload returns the one value that payload
\* determines, and no step of an analysis changes anything of the service.
C12_AnalysisPure ==
    /\ [](analysis.pc = "done" =>
             analysis.result = AnalyzeSmartData(analysis.raw))
    /\ [][analysis' # analysis => UNCHANGED service]_vars

\* A second call on the hot payload has returned after the store had
\* received reports and samples.
C12_Witness ==
    /\ analysis.pc = "done"
    /\ analysis.raw = <<HotPayload>>
    /\ analysis.result.health_status = "WARNING"
    /\ smart_info # EmptyDict
    /\ realtime_history.items # <<>>

\* The rows of a payload's table on which the critical-attribute rule fires.
FiringRows(raw) ==
    {i \in 1..Len(raw.ata.table) :
        /\ raw.ata.table[i].id \in {5, 187, 188, 197, 198}
        /\ raw.ata.table[i].raw > 0}

\* No NVMe rule and no temperature rule fires on the payload.
NvmeAndTemperatureQuiet(raw) ==
    /\ raw.nvme = <<>>
          \/ (raw.nvme[1].critical_warning = 0 /\ raw.nvme[1].percentage_used <= 85)
    /\ raw.temperature = <<>> \/ raw.temperature[1] <= 55

\* C13: an analysis that returns for a payload with the self-test passed,
\* no NVMe and no temperature rule firing, and exactly one row with a
\* critical id and a raw value above 0 (scenario A: id 5, raw 3, temperature
\* 40) has status WARNING and exactly one finding, for the id of that row.
C13_ScenarioA ==
    analysis.pc = "done" /\ analysis.raw # <<>> =>
       LET raw == analysis.raw[1]
       IN  /\ raw.smart_status = "passed"
           /\ NvmeAndTemperatureQuiet(raw)
           /\ Cardinality(FiringRows(raw)) = 1
           => /\ analysis.result.health_status = "WARNING"
              /\ Len(analysis.result.critical_attributes) = 1
              /\ \A i \in FiringRows(raw) :
                    analysis.result.critical_attributes[1].id = raw.ata.table[i].id
              /\ \A i \in FiringRows(raw) :
                    analysis.result.critical_attributes[1].raw_value
                       = raw.ata.table[i].raw

\* The analysis of scenario A, a row of a second critical id with raw 0
\* beside the one of id 5, has returned.
C13_Witness ==
    /\ analysis.pc = "done"
    /\ analysis.raw =
         <<[smart_status |-> "passed", nvme |-> <<>>,
            ata |-> [present |-> TRUE, has_table |-> TRUE,
                     table |-> <<[id |-> 5, raw |-> 3], [id |-> 197, raw |-> 0]>>],
            temperature |-> <<40>>]>>
    /\ analysis.result.health_status = "WARNING"
    /\ analysis.result.critical_attributes = <<[id |-> 5, raw_value |-> 3]>>

\* C14: an analysis that returns for a payload whose self-test indicator
\* does not report passed has status FAILED, whatever its NVMe log, its
\* attribute rows and its temperature.
C14_ScenarioB ==
    analysis.pc = "done" /\ analysis.raw # <<>> =>
       (analysis.raw[1].smart_status # "passed"
          => analysis.result.health_status = "FAILED")

\* A failed self-test with a worn SSD, a critical row and a high
\* temperature has come back FAILED.
C14_Witness ==
    /\ analysis.pc = "done"
    /\ analysis.raw # <<>>
    /\ analysis.raw[1].smart_status = "failed"
    /\ analysis.raw[1].nvme = <<[critical_warning |-> 0, percentage_used |-> 90]>>
    /\ analysis.raw[1].temperature = <<56>>
    /\ Len(analysis.result.critical_attributes) = 2
    /\ analysis.result.health_status = "FAILED"

\* C15: every analysis that returns for a payload with NVMe percentage-used
\* 90 and critical_warning 0 has status WARNING and the line on the SSD life.
C15_ScenarioC ==
    analysis.pc = "done" /\ analysis.raw # <<>> =>
       (analysis.raw[1].nvme = <<[critical_warning |-> 0, percentage_used |-> 90]>>
          => /\ analysis.result.health_status = "WARNING"
             /\ \E i \in 1..Len(analysis.result.summary) :
                   analysis.result.summary[i] = "SSD life used")

\* C15, as the code has it: such a payload has the line on the SSD life in
\* its summary, the status WARNING when its self-test passed, and FAILED
\* when its self-test did not.
C15_ScenarioCSelfTestPassed ==
    analysis.pc = "done" /\ analysis.raw # <<>> =>
       (analysis.raw[1].nvme = <<[critical_warning |-> 0, percentage_used |-> 90]>>
          => /\ analysis.result.health_status =
                   IF analysis.raw[1].smart_status = "passed"
                   THEN "WARNING" ELSE "FAILED"
             /\ \E i \in 1..Len(analysis.result.summary) :
                   analysis.result.summary[i] = "SSD life used")

\* The analysis of a passed self-test with percentage-used 90, and nothing
\* else, has returned.
C15_Witness ==
    /\ analysis.pc = "done"
    /\ analysis.raw # <<>>
    /\ analysis.raw[1].smart_status = "passed"
    /\ analysis.raw[1].nvme = <<[critical_warning |-> 0, percentage_used |-> 90]>>
    /\ analysis.result.summary = <<"self-test passed", "SSD life used">>
    /\ analysis.result.health_status = "WARNING"

\* C16: the analysis of an absent payload has status UNKNOWN, one summary
\* line and no findings.
C16_ScenarioD ==
    /\ analysis.pc = "done" /\ analysis.raw = <<>> =>
          /\ analysis.result.health_status = "UNKNOWN"
          /\ Len(analysis.result.summary) = 1
          /\ analysis.result.critical_attributes = <<>>
    /\ analysis.pc = "begin" /\ analysis.raw = <<>> =>
          /\ AnalyzeSmartData(analysis.raw).health_status = "UNKNOWN"
          /\ Len(AnalyzeSmartData(analysis.raw).summary) = 1

\* The analysis of None has returned.
C16_Witness ==
    /\ analysis.pc = "done"
    /\ analysis.raw = <<>>
    /\ analysis.result.summary = <<"no S.M.A.R.T. data">>

\* C17: the analysis of a payload on which no rule fires has status HEALTHY,
\* its summary is the 'no anomalies' line alone and its recommendations the
\* default one alone.
C17_ScenarioE ==
    analysis.pc = "done" /\ analysis.raw # <<>> =>
       (/\ analysis.raw[1].smart_status = "passed"
        /\ NvmeAndTemperatureQuiet(analysis.raw[1])
        /\ FiringRows(analysis.raw[1]) = {}
        => /\ analysis.result.health_status = "HEALTHY"
           /\ analysis.result.summary = <<"no anomalies">>
           /\ analysis.result.recommendations = <<"keep checking">>)

\* C17, as the code has it: the summary is the line of the passed self-test
\* followed by the 'no anomalies' line, the recommendations are the default
\* one alone, and there are no findings.
C17_ScenarioEPassedLineFirst ==
    analysis.pc = "done" /\ analysis.raw # <<>> =>
       (/\ analysis.raw[1].smart_status = "passed"
        /\ NvmeAndTemperatureQuiet(analysis.raw[1])
        /\ FiringRows(analysis.raw[1]) = {}
        => /\ analysis.result.health_status = "HEALTHY"
           /\ analysis.result.summary = <<"self-test passed", "no anomalies">>
           /\ analysis.result.recommendations = <<"keep checking">>
           /\ analysis.result.critical_attributes = <<>>)

\* The analysis of scenario E (temperature 45, rows with raw 0) has
\* returned.
C17_Witness ==
    /\ analysis.pc = "done"
    /\ analysis.raw # <<>>
    /\ analysis.raw[1].smart_status = "passed"
    /\ analysis.raw[1].temperature = <<45>>
    /\ analysis.raw[1].nvme = <<[critical_warning |-> 0, percentage_used |-> 85]>>
    /\ Len(analysis.raw[1].ata.table) = 2
    /\ analysis.result.health_status = "HEALTHY"

\* C18: a disk-usage scan that has stored its report has, for every path of
\* its list that is not a directory, no entry in the report and a warning in
\* the log, and for every path that scans to its end an entry, wherever in
\* the list the two stand.
C18_ScenarioF ==
    usage.pc = "done" =>
       \A i \in 1..Len(usage.paths) :
          LET path == usage.paths[i]
          IN  /\ usage.fs[path] = "not_dir" =>
                   /\ \A k \in 1..Len(disk_usage.data) :
                         disk_usage.data[k].path # path
                   /\ \E k \in 1..Len(usage.log) :
                         usage.log[k] = [level |-> "warning", path |-> path]
              /\ usage.fs[path] = "ok" =>
                   \E k \in 1..Len(disk_usage.data) :
                      disk_usage.data[k] = [path |-> path, users |-> "listed"]

\* The scan of a missing path followed by a valid one has stored its report.
C18_Witness ==
    /\ usage.pc = "done"
    /\ usage.paths = <<"/home", "/mnt/home">>
    /\ usage.fs["/home"] = "not_dir"
    /\ usage.fs["/mnt/home"] = "ok"
    /\ disk_usage.data = <<[path |-> "/mnt/home", users |-> "listed"]>>
    /\ usage.log = <<[level |-> "warning", path |-> "/home"]>>

\* C19: a cycle whose device discovery failed stores the empty S.M.A.R.T.
\* report and goes on to the disk-usage scan, which stores its report; the
\* steps of the slow worker leave the realtime history and the fast worker
\* as they are.
C19_DiscoveryFailure ==
    /\ [][\A g \in Generations :
            /\ daily[g].pc = "sm_st" /\ daily[g].local[1].device_list = <<>>
                 /\ daily'[g] # daily[g]
                 => /\ smart_info'.data =
                          [device_list |-> <<>>, disk_info |-> EmptyDict]
                    /\ daily'[g].pc = "du"
            /\ IsAlive(daily[g]) /\ daily'[g] # daily[g]
                 => UNCHANGED <<realtime_history, rt>>]_vars
    /\ \A g \in {1} :
          (daily[g].pc = "sm_st" /\ daily[g].local[1].device_list = <<>>)
             ~> (daily[g].pc = "loop" /\ "disk" \in daily[g].replaced)

\* After a failed discovery the empty report is in the store, the disk
\* report of the same cycle after it, and a sample taken after both.
C19_Witness ==
    /\ smart_info # EmptyDict
    /\ smart_info.data = [device_list |-> <<>>, disk_info |-> EmptyDict]
    /\ disk_usage # EmptyDict
    /\ disk_usage.timestamp = smart_info.timestamp + 1
    /\ realtime_history.items # <<>>
    /\ realtime_history.items[Len(realtime_history.items)].timestamp
          > disk_usage.timestamp

\* C20: in a report that _collect_all_smart_info returns after a successful
\* discovery, every discovered device is listed and has the analysis of the
\* payload fetched for it: UNKNOWN when, and only when, its fetch or parse
\* failed, whatever happened to the other devices.
C20_FetchFailureIsLocal ==
    smart.pc = "done" /\ smart.scan.ok =>
       LET devs == smart.scan.devices
           report == smart.final_report
       IN  /\ {report.device_list[k] : k \in 1..Len(report.device_list)}
                = {devs[j].path : j \in 1..Len(devs)}
           /\ DOMAIN report.disk_info = {devs[j].path : j \in 1..Len(devs)}
           /\ \A j \in 1..Len(devs) :
                 (\A k \in j + 1..Len(devs) : devs[k].path # devs[j].path) =>
                    LET e == report.disk_info[devs[j].path]
                    IN  /\ e.raw_smart_data = devs[j].raw
                        /\ e.analysis = AnalyzeSmartData(devs[j].raw)
                        /\ e.analysis.health_status = "UNKNOWN"
                              <=> devs[j].raw = <<>>

\* The report of two devices, the fetch of the first having failed, has
\* been returned.
C20_Witness ==
    /\ smart.pc = "done"
    /\ smart.scan.ok
    /\ Len(smart.scan.devices) = 2
    /\ smart.scan.devices[1] = [path |-> "/dev/sda", raw |-> <<>>]
    /\ smart.scan.devices[2].path = "/dev/sdb"
    /\ smart.final_report.device_list = <<"/dev/sda", "/dev/sdb">>
    /\ smart.final_report.disk_info["/dev/sda"].analysis.health_status = "UNKNOWN"
    /\ smart.final_report.disk_info["/dev/sdb"].analysis.health_status = "FAILED"

\* C21: a disk-usage scan that has stored its report has, for every path of
\* its list whose partition query failed or whose listing failed, no entry
\* in the report and a line in the log.
C21_FailedPathOmitted ==
    usage.pc = "done" =>
       \A i \in 1..Len(usage.paths) :
          LET path == usage.paths[i]
          IN  usage.fs[path] \in {"no_partition", "denied", "listing_error"} =>
                 /\ \A k \in 1..Len(disk_usage.data) :
                       disk_usage.data[k].path # path
                 /\ \E k \in 1..Len(usage.log) : usage.log[k].path = path

\* The steps of the operations, told by what they move: a step of a running
\* fast worker, a step of a running slow worker, a step of start() or
\* stop(), a step of an accessor.
FastWorkerStep == \E g \in Generations : IsAlive(rt[g]) /\ rt'[g] # rt[g]
SlowWorkerStep == \E g \in Generations : IsAlive(daily[g]) /\ daily'[g] # daily[g]
StartStep ==
    main' # main /\ (main.pc = "start_lock" \/ main'.pc = "start_lock")
StopStep ==
    main' # main /\ (main.pc \in {"join_rt", "join_daily"} \/ main'.pc = "join_rt")
AccessorStep == reader' # reader

\* The three reports of the slow worker.
reports == <<hardware_info, disk_usage, smart_info>>

\* C22: the samples of the realtime history are changed by steps of the
\* fast worker only and the three reports by steps of the slow worker only;
\* the fast worker leaves the reports and the slow worker the history as
\* they are; no step of start(), stop() or an accessor changes any of the
\* four.
C22_OnlyWorkersMutate ==
    [][/\ realtime_history'.items # realtime_history.items => FastWorkerStep
       /\ reports' # reports => SlowWorkerStep
       /\ FastWorkerStep => UNCHANGED reports
       /\ SlowWorkerStep => UNCHANGED realtime_history
       /\ StartStep \/ StopStep \/ AccessorStep
            => /\ realtime_history'.items = realtime_history.items
               /\ UNCHANGED reports]_vars

\* C22, amended: as above for the workers, stop() and the accessors; the
\* step of start() that creates the threads replaces the realtime history
\* by an empty deque of the computed capacity and is the only step besides
\* the fast worker's that changes it; no step of start() changes a report.
C22_WorkersDisjointStartResets ==
    [][/\ realtime_history' # realtime_history =>
            \/ FastWorkerStep
            \/ /\ main.pc = "start_lock" /\ main'.pc = "idle"
               /\ realtime_history' =
                     [items |-> <<>>, maxlen |-> MaxLenOf(config)]
       /\ reports' # reports => SlowWorkerStep
       /\ FastWorkerStep => UNCHANGED reports
       /\ SlowWorkerStep => UNCHANGED realtime_history
       /\ StartStep => UNCHANGED reports
       /\ StopStep \/ AccessorStep => UNCHANGED store]_vars

\* The service has been started again after a hardware snapshot and a
\* sample were stored: the history is empty, the snapshot is still there.
C22_Witness ==
    /\ rt[2].pc = "loop"
    /\ main.pc = "idle"
    /\ hardware_info # EmptyDict
    /\ hardware_info.timestamp = 1
    /\ smart_info = EmptyDict
    /\ disk_usage = EmptyDict
    /\ now = 2
    /\ realtime_history.items = <<>>
    /\ realtime_history.maxlen = 2

\* How often a line stands in a list.
Count(seq, x) == Cardinality({i \in 1..Len(seq) : seq[i] = x})

\* The findings of the firing rows of a table, in the order of the rows.
RECURSIVE Findings(_)
Findings(table) ==
    IF table = <<>> THEN <<>>
    ELSE LET attr == Head(table)
         IN  (IF attr.id \in {5, 187, 188, 197, 198} /\ attr.raw > 0
              THEN <<[id |-> attr.id, raw_value |-> attr.raw]>> ELSE <<>>)
             \o Findings(Tail(table))

\* C23: an analysis that returns for a payload has one "SSD life used" line
\* and recommendation exactly when the NVMe percentage used is above 85,
\* one "critical attribute" line, recommendation and finding for every
\* critical row with a raw value above 0, and one "temperature high" line
\* and recommendation exactly when the temperature is above 55, whatever
\* the status was when the rule was reached; and a step of the analysis
\* makes the status WARNING only from HEALTHY.
C23_FindingsNotGated ==
    /\ [](analysis.pc = "done" /\ analysis.raw # <<>> =>
            LET r == analysis.raw[1]
                a == analysis.result
                life == IF r.nvme # <<>> /\ r.nvme[1].percentage_used > 85
                        THEN 1 ELSE 0
                hot == IF r.temperature # <<>> /\ r.temperature[1] > 55
                       THEN 1 ELSE 0
                rows == IF r.ata.present THEN Findings(r.ata.table) ELSE <<>>
            IN  /\ Count(a.summary, "SSD life used") = life
                /\ Count(a.recommendations, "replace the SSD soon") = life
                /\ Count(a.summary, "critical attribute") = Len(rows)
                /\ Count(a.recommendations, "monitor the attribute") = Len(rows)
                /\ a.critical_attributes = rows
                /\ Count(a.summary, "temperature high") = hot
                /\ Count(a.recommendations, "check the cooling") = hot)
    /\ [][analysis'.result.health_status = "WARNING"
             /\ analysis.result.health_status # "WARNING"
             => analysis.result.health_status = "HEALTHY"]_vars

\* An analysis has returned FAILED for a payload with the self-test failed,
\* the NVMe life at 90, two firing rows and the temperature at 56, with all
\* four findings in its summary.
C23_Witness ==
    /\ analysis.pc = "done"
    /\ analysis.raw # <<>>
    /\ analysis.raw[1].smart_status = "failed"
    /\ analysis.result.health_status = "FAILED"
    /\ analysis.result.summary =
         <<"self-test failed", "SSD life used", "critical attribute",
           "critical attribute", "temperature high">>
    /\ Len(analysis.result.critical_attributes) = 2

\* C28: an analysis that returns for a payload has the status FAILED exactly
\* when the self-test is not reported as passed or the NVMe critical warning
\* is above 0; otherwise WARNING exactly when the NVMe percentage used is
\* above 85, a critical row has a raw value above 0 or the temperature is
\* above 55; otherwise HEALTHY. 85 and 55 themselves raise nothing.
C28_StatusDetermined ==
    analysis.pc = "done" /\ analysis.raw # <<>> =>
       LET r == analysis.raw[1]
           failed == \/ r.smart_status # "passed"
                     \/ r.nvme # <<>> /\ r.nvme[1].critical_warning > 0
           warned == \/ r.nvme # <<>> /\ r.nvme[1].percentage_used > 85
                     \/ r.ata.present /\ FiringRows(r) # {}
                     \/ r.temperature # <<>> /\ r.temperature[1] > 55
       IN  analysis.result.health_status =
              IF failed THEN "FAILED"
              ELSE IF warned THEN "WARNING" ELSE "HEALTHY"

\* An analysis has returned HEALTHY for a payload with the percentage used
\* at 85 and the temperature at 55.
C28_Witness ==
    /\ analysis.pc = "done"
    /\ analysis.raw # <<>>
    /\ analysis.raw[1].smart_status = "passed"
    /\ analysis.raw[1].nvme = <<[critical_warning |-> 0, percentage_used |-> 85]>>
    /\ analysis.raw[1].temperature = <<55>>
    /\ analysis.result.health_status = "HEALTHY"

\* C29: in an analysis that returns for a payload the "no anomalies" line
\* and the "keep checking" recommendation are present exactly when the
\* status is HEALTHY, the summary then having two lines and the
\* recommendations one; and the summary has one line more than the
\* recommendations when the self-test passed, and as many when it failed.
C29_DefaultPairIffHealthy ==
    analysis.pc = "done" /\ analysis.raw # <<>> =>
       LET a == analysis.result
           healthy == a.health_status = "HEALTHY"
       IN  /\ Count(a.summary, "no anomalies") = (IF healthy THEN 1 ELSE 0)
           /\ Count(a.recommendations, "keep checking") = (IF healthy THEN 1 ELSE 0)
           /\ healthy => Len(a.summary) = 2 /\ Len(a.recommendations) = 1
           /\ Len(a.summary) =
                 Len(a.recommendations)
                    + (IF analysis.raw[1].smart_status = "passed" THEN 1 ELSE 0)

\* An analysis has returned WARNING for a payload with the self-test passed
\* and two rules firing: three lines, two recommendations, no default pair.
C29_Witness ==
    /\ analysis.pc = "done"
    /\ analysis.raw # <<>>
    /\ analysis.raw[1].smart_status = "passed"
    /\ analysis.result.health_status = "WARNING"
    /\ analysis.result.summary =
         <<"self-test passed", "SSD life used", "temperature high">>
    /\ analysis.result.recommendations =
         <<"replace the SSD soon", "check the cooling">>

\* C26: a call of _run_command ends by returning, never by raising; what it
\* returns is a pair of a flag and a payload, the flag being true exactly
\* when subprocess.run completed, which it does only for a program that was
\* found, ended within the timeout and exited with code 0; and the call has
\* run subprocess.run once.
C26_ExecutorNeverRaises ==
    /\ command.pc \in {"none", "call", "run", "returning", "done"}
    /\ command.pc \in {"returning", "done"} => command.spawned = 1
    /\ command.pc \in {"call", "run"} => command.spawned = 0
    /\ command.pc = "done" =>
          LET child == command.run[1].child
          IN  /\ Len(command.ret) = 2
              /\ command.ret[1] \in BOOLEAN
              /\ command.ret[1] <=> command.run[1].kind = "completed"
              /\ command.ret[1] =>
                    /\ child.found /\ child.timely /\ child.returncode = 0
                    /\ command.ret[2] = Strip(child.stdout)

\* A call under sudo has returned the failure pair for a program that
\* exited with code 2 and wrote to its error output.
C26_Witness ==
    /\ command.pc = "done"
    /\ command.use_sudo
    /\ command.run[1].kind = "CalledProcessError"
    /\ command.run[1].child.returncode = 2
    /\ command.run[1].child.stderr = <<"x", "\n">>
    /\ command.ret[1] = FALSE
    /\ command.ret[2] =
         <<"command failed", "sudo", "dmidecode", "-t", "baseboard", "x", 2>>
    /\ command.spawned = 1

\* C24: a turn of the realtime loop in which a GPU query failed has, once
\* its sample is appended, left as the newest sample of a history with room
\* one that holds the CPU and memory readings and an empty GPU list; and a
\* later turn on a host with the library reaches its sample only through
\* the GPU queries of its own.
C24_GpuFailureGivesEmptyList ==
    /\ sample.pc = "wait" /\ sample.failed /\ realtime_history.maxlen > 0 =>
          /\ realtime_history.items # <<>>
          /\ LET last == realtime_history.items[Len(realtime_history.items)]
             IN  /\ last.timestamp = now
                 /\ last.data.cpu = "usage_percent_total"
                 /\ last.data.memory = "total_bytes, used_bytes"
                 /\ last.data.gpus = <<>>
    /\ sample.pc = "append" /\ sample.nvidia /\ sample.turns > 1 =>
          sample.failed \/ Len(sample.gpus) = sample.device_count

\* C25: a hardware probe never ends by an exception, whichever sub-probes
\* fail on the host; and the snapshot a finished probe has stored holds, for
\* each of the OS release, the CPU tool, the board tool, the GPU library
\* and the block-device tool, the 'N/A' placeholder or the empty list when
\* it failed and its data when it succeeded.
C25_EverySubProbeDegrades ==
    /\ probe.pc # "raised"
    /\ probe.pc = "done" =>
          LET h == probe.host
              info == hardware_info.data
              gpu_failed == h.nvml # <<>> /\ h.nvml[1].raising < h.nvml[1].count
          IN  /\ hardware_info.timestamp = now
              /\ info.os.distro = (IF h.os_release = "fields"
                                   THEN "PRETTY_NAME" ELSE "N/A")
              /\ info.cpu = (IF h.lscpu = "output" THEN "lscpu fields" ELSE "N/A")
              /\ info.motherboard =
                    (IF h.dmidecode = "output" THEN "dmidecode fields" ELSE "N/A")
              /\ info.gpus = (IF h.nvml = <<>> \/ gpu_failed
                              THEN <<>> ELSE GpusRead(h.nvml[1].count))
              /\ info.disks = (IF h.lsblk = "output" THEN <<"lsblk line">> ELSE <<>>)

\* The threads of each loop that are alive.
AliveFast == {g \in Generations : IsAlive(rt[g])}
AliveSlow == {g \in Generations : IsAlive(daily[g])}

\* C27: whatever start() and stop() calls have been made, at most one
\* thread of the realtime loop and at most one thread of the daily loop are
\* alive.
C27_AtMostOneWorkerEach ==
    /\ Cardinality(AliveFast) <= 1
    /\ Cardinality(AliveSlow) <= 1

\* The step of start() that creates the threads.
StartsService == main.pc = "start_lock" /\ main'.pc = "idle"

\* C30: the step of start() that creates the threads leaves an empty
\* realtime history of the capacity computed from the configuration; every
\* sample appended afterwards is one whose collection began after that
\* step, so that nothing collected before it is in the history; and no step
\* of start() or stop() changes the hardware, disk-usage or S.M.A.R.T.
\* report.
C30_StartEmptiesHistory ==
    [][/\ StartsService =>
            realtime_history' = [items |-> <<>>, maxlen |-> MaxLenOf(config)]
       /\ \A g \in Generations :
             rt[g].pc = "append" /\ rt'[g].pc = "loop" =>
                rt[g].starts = NextGen - 1
       /\ StartStep \/ StopStep => UNCHANGED reports]_vars

====
